---- MODULE Spec2Model ----
(***************************************************************************)
(* Model of the MoaT inverter controller (victron/inv): the mode runner    *)
(* and control surface of InvControl, the limit calculator calc_inv_p and  *)
(* the mode tasks that call it.                                            *)
(*                                                                         *)
(* Numbers.  The Python code computes with floats; the model computes      *)
(* with exact rationals <<n, d>> (d > 0, lowest terms).  A signal whose    *)
(* value is None is the pair None == <<0, 0>>.                             *)
(***************************************************************************)
EXTENDS Integers, Sequences, FiniteSets, TLC

VARIABLES
    (* ---- control surface / mode runner (InvControl) ---- *)
    cfg,                  \* self.cfg: [default, modes]
    op,                   \* self.op: operator parameters, key -> value | None
    _mode,                \* self._mode
    _change_mode_evt,     \* self._change_mode_evt: "None" | "unset" | "set"
    _mode_task,           \* self._mode_task: 0 (None) or the slot of the task owning the scope
    _mode_task_stopped,   \* self._mode_task_stopped.is_set()
    pcRun,                \* position of InvControl.run
    tasks,                \* the _run_mode_task coroutines in the task group, by slot
    crashed,              \* the exception that left a task and cancelled the task
                          \* group of InvControl.run, "" while there is none
    (* ---- telemetry and limit calculator state ---- *)
    sig,                  \* cached signal values (DbusItemImport.value)
    par,                  \* "system" parameters of InvControl
    i_pv_max,             \* self.i_pv_max
    last_p, dest_p, step, \* damper state
    p_set,                \* /Hub4/L{i}/AcPowerSetpoint as last written
    bms_cap,              \* the arguments of the last set_capacity call the BMS
                          \* received, << >> while there was none
    (* ---- observation (history) ---- *)
    lastReq,              \* the last control-surface request and its outcome
    lastSwitch,           \* the parameters the last accepted mode switch submitted,
                          \* NoData once a later request changed op
    lastSet,              \* the last call of InvControl.set_inv_ps: did it write,
                          \* and was op.fake set
    res,                  \* the result of the last decide call made on its own
    ncalc,                \* the number of decide calls made on their own
    call,                 \* a function called on its own: its arguments and
                          \* the values it returned
    env,                  \* the requests and signal updates the environment makes
                          \* in this behaviour
    (* ---- a published signal (DbusItemExport) and its importer ---- *)
    item,                 \* the exported item, the importer's cache and the
                          \* outcome of the last write
    (* ---- the averaging tasks ---- *)
    averages,             \* _i_batt_task: b_last, i_batt_avg and its event;
                          \* _avg_task: is it looping without suspending
    (* ---- the wait after an emission (InvModeBase.set_inv_ps) ---- *)
    settle,               \* the position in the loop, its locals n, nt and p,
                          \* and the mode's running, ps_min and ps_max
    (* ---- the top balancing of the analysis (InvMode_Analyze.balance) ---- *)
    topbal                \* the position in balance(), its local n and the
                          \* cell voltages it read last

vars == << cfg, op, _mode, _change_mode_evt, _mode_task, _mode_task_stopped,
           pcRun, tasks, crashed, sig, par, i_pv_max, last_p, dest_p, step,
           p_set, bms_cap, lastReq, lastSwitch, lastSet, res, ncalc, call, env,
           settle, topbal, item, averages >>

ctlVars == << cfg, op, _mode, _change_mode_evt, _mode_task, _mode_task_stopped,
              pcRun, tasks, crashed >>

-----------------------------------------------------------------------------
(* Exact rational arithmetic standing in for Python floats.                *)

None == << 0, 0 >>

IsNone(x) == x[2] = 0

Abs(n) == IF n < 0 THEN -n ELSE n

RECURSIVE GCD(_, _)
GCD(a, b) == IF b = 0 THEN a ELSE GCD(b, a % b)

Norm(n, d) ==
    LET s == IF d < 0 THEN -1 ELSE 1
        g == GCD(Abs(n), Abs(d))
    IN  << (s * n) \div g, (s * d) \div g >>

R(n)    == << n, 1 >>
Q(n, d) == Norm(n, d)

RAdd(a, b) == Norm(a[1] * b[2] + b[1] * a[2], a[2] * b[2])
RNeg(a)    == << -a[1], a[2] >>
RSub(a, b) == RAdd(a, RNeg(b))
RMul(a, b) == Norm(a[1] * b[1], a[2] * b[2])
RDiv(a, b) == Norm(a[1] * b[2], a[2] * b[1])
RLt(a, b)  == a[1] * b[2] < b[1] * a[2]
RLe(a, b)  == a[1] * b[2] <= b[1] * a[2]
RAbs(a)    == << Abs(a[1]), a[2] >>
RMax(a, b) == IF RLt(a, b) THEN b ELSE a
RMin(a, b) == IF RLt(b, a) THEN b ELSE a

Zero == R(0)


RECURSIVE RSum(_)
RSum(s) == IF s = << >> THEN Zero ELSE RAdd(Head(s), RSum(Tail(s)))

-----------------------------------------------------------------------------
(* Signals and derived quantities (properties of InvControl).              *)

(* Python raises TypeError when None enters arithmetic.                    *)
n_phase == sig.n_phase               \* self.n_phase.value or 0

i_batt  == RNeg(sig._i_batt)
u_dc    == RAdd(sig._u_dc, RMul(i_batt, par.r_int))
batt_soc == RDiv(sig._batt_soc, R(100))
i_pv    == sig._i_pv
p_cons  == RNeg(RSum(sig.p_cons_))
p_grid  == RSum(sig.p_grid_)

(* `not self._ok_dis` / `not self._ok_chg` test the DbusItemImport object  *)
(* itself (update_vars stores the importer, the property does not take     *)
(* .value); the class defines neither __bool__ nor __len__, so the object  *)
(* is true whatever the signal's value is.                                 *)
ItemTruth(value) == TRUE

ib_max == IF ~ItemTruth(sig._ok_dis) THEN Zero ELSE sig._ib_dis
ib_min == IF ~ItemTruth(sig._ok_chg) THEN Zero ELSE RNeg(sig._ib_chg)

i_from_p(p, rev) ==
    LET r0 == RDiv(RNeg(p), u_dc)
    IN  IF rev = RLt(r0, Zero) THEN RDiv(r0, par.inv_eff) ELSE RMul(r0, par.inv_eff)

p_from_i_ignoring_rev(i, rev) ==
    RMul(RMul(RNeg(i), u_dc), par.inv_eff)

p_from_i(i, rev) ==
    LET r0 == RMul(RNeg(i), u_dc)
    IN  IF rev = RLt(Zero, r0) THEN RDiv(r0, par.inv_eff) ELSE RMul(r0, par.inv_eff)

small_p_step_one_sided(p, q) ==
    IF RLt(RAbs(RSub(p, q)), par.p_step) THEN TRUE
    ELSE IF RLt(Zero, p) # RLt(Zero, q) THEN FALSE
    ELSE RLt(RDiv(RAdd(par.p_step, RAbs(p)), RAdd(par.p_step, RAbs(q))), Q(12, 10))

small_p_step(p, q) ==
    IF RLt(RAbs(RSub(p, q)), par.p_step) THEN TRUE
    ELSE IF RLt(Zero, p) # RLt(Zero, q) THEN FALSE
    ELSE LET f == RDiv(RAdd(par.p_step, RAbs(p)), RAdd(par.p_step, RAbs(q)))
         IN  RLt(Q(10, 12), f) /\ RLt(f, Q(12, 10))

(* a factor above 1 *)
pow_f_step_double(k) == R(2)

(* self.f_step ** (2 / self.step).  The power is irrational for most      *)
(* steps; it is tabulated for f_step = 0.35 by the fractions nearest to    *)
(* 0.4966, 0.5916, 0.6571 and 0.7047.                                      *)
pow_f_step(k) ==
    CASE k = 1 -> RMul(par.f_step, par.f_step)
      [] k = 2 -> par.f_step
      [] k = 3 -> Q(149, 300)
      [] k = 4 -> Q(71, 120)
      [] k = 5 -> Q(23, 35)
      [] OTHER -> Q(31, 44)

(* Signals whose value calc_inv_p uses in arithmetic before it touches     *)
(* the damper state.                                                       *)
CalcSignals ==
    << sig._u_dc, sig._i_batt, sig._i_pv, sig._ib_dis, sig._ib_chg,
       sig.u_max, sig.u_min, sig.b_cap, sig._batt_soc >>

SignalAbsent == \E k \in 1..Len(CalcSignals) : IsNone(CalcSignals[k])


(* What the caller of calc_inv_p sees when nothing was computed.           *)
NoCalc(exc) ==
    [ exc |-> exc, phases |-> << >>, init |-> None, phase |-> 0, p |-> None, np |-> None,
      i_batt |-> None, i_inv |-> None, lims |-> << >>, fired |-> {},
      step |-> step, last_p |-> last_p, dest_p |-> dest_p ]

SelectNames(names, fired) == SelectSeq(names, LAMBDA r : r \in fired)

(* ---- _util.balance ---------------------------------------------------- *)

(* the min / max argument of balance: None, a number, or a list; v holds  *)
(* no value, the number, or the values of the list                         *)
NoLimit   == [ kind |-> "none", v |-> << >> ]
Num(x)    == [ kind |-> "num", v |-> << x >> ]
List(xs)  == [ kind |-> "list", v |-> xs ]

negated(a) == [k \in 1..Len(a) |-> RNeg(a[k])]

(* the largest positive entry instead of their sum *)
sum_pos_largest(a) ==
    CHOOSE x \in { RMax(a[k], Zero) : k \in 1..Len(a) } :
        \A k \in 1..Len(a) : RLe(a[k], x)

(* sum(x for x in a if x > 0) *)
sum_pos(a) == RSum([k \in 1..Len(a) |-> RMax(a[k], Zero)])

(* the entries in the order given *)
sorted_desc_as_given(a) == [k \in 1..Len(a) |-> k]

(* sorted(enumerate(a), key=lambda x: -x[1]): the indices of a by          *)
(* descending value; the sort is stable, equal values keep their order     *)
sorted_desc(a) ==
    LET before(i, j) == RLt(a[j], a[i]) \/ (a[i] = a[j] /\ i < j)
        pos(i) == 1 + Cardinality({ j \in 1..Len(a) : before(j, i) })
    IN  [k \in 1..Len(a) |-> CHOOSE i \in 1..Len(a) : pos(i) = k]

(* balance with the absorption halved and the non-positive entries kept *)
drop_step_half(st, k) ==
    LET i  == st.order[k]
        v  == st.a[i]
        rd == RDiv(st.d, R(2 * k))
    IN  IF RLe(v, Zero) THEN [st EXCEPT !.ra[i] = st.a[i]]
        ELSE [st EXCEPT !.ra[i] = RSub(v, rd), !.d = RSub(st.d, rd)]

(* "drop the negatives": one pass of the loop `while a: i, v = a.pop()`,   *)
(* entry k of the sorted list, the smallest first; st holds a, the sorted  *)
(* indices, the rest d and the values ra so far                            *)
drop_step(st, k) ==
    LET i  == st.order[k]
        v  == st.a[i]
        rd == RDiv(st.d, R(k))
    IN  IF RLe(v, Zero) THEN [st EXCEPT !.ra[i] = Zero]
        ELSE IF RLe(v, rd) THEN [st EXCEPT !.ra[i] = Zero, !.d = RSub(st.d, v)]
        ELSE [st EXCEPT !.ra[i] = RSub(v, rd), !.d = RSub(st.d, rd)]

RECURSIVE drop_loop(_, _)
drop_loop(st, k) ==
    IF k = 0 THEN st
    ELSE CHOOSE r \in { drop_loop(t, k - 1) : t \in { drop_step(st, k) } } : TRUE

(* capping that drops what it cut off *)
cap_step_dropping(st, k) ==
    LET i  == st.order[k]
        v  == st.ra[i]
        mi == IF st.rev THEN RNeg(st.m[i]) ELSE st.m[i]
    IN  IF RLt(mi, v)
        THEN [st EXCEPT !.out[i] = mi, !.capped = st.capped \cup {i}]
        ELSE [st EXCEPT !.out[i] = v]

(* the capping loop `while ra: i, v = ra.pop()`, entry k of the sorted     *)
(* list, the largest first; st.m is the list of limits, st.rev the flag;   *)
(* st.capped collects the entries that took the `v + rd > mi` branch       *)
cap_step(st, k) ==
    LET i  == st.order[k]
        v  == st.ra[i]
        rd == RDiv(st.d, R(Len(st.a) - k + 1))
        mi == IF st.rev THEN RNeg(st.m[i]) ELSE st.m[i]
    IN  IF RLt(mi, RAdd(v, rd))
        THEN [st EXCEPT !.out[i] = mi, !.d = RAdd(st.d, RSub(v, mi)),
                        !.capped = st.capped \cup {i}]
        ELSE [st EXCEPT !.out[i] = RAdd(v, rd), !.d = RSub(st.d, rd)]

RECURSIVE cap_loop(_, _)
cap_loop(st, k) ==
    IF k > Len(st.a) THEN st
    ELSE CHOOSE r \in { cap_loop(t, k + 1) : t \in { cap_step(st, k) } } : TRUE

(* balance(a, min, max) after `if not a: return a`, a0 the list as given:  *)
(* the values of the locals at the final sort                              *)
balance_run(a0, min, max) ==
    LET sl  == sum_pos(negated(a0))
        sh  == sum_pos(a0)
        rev == RLt(sh, sl)
        a   == IF rev THEN negated(a0) ELSE a0
        ord == sorted_desc(a)
        st0 == [ a |-> a, order |-> ord, d |-> IF rev THEN sh ELSE sl, ra |-> a,
                 rev |-> rev, m |-> << >>, out |-> a, capped |-> {} ]
        st1 == IF RLe(Zero, a[ord[Len(a)]]) THEN st0 ELSE drop_loop(st0, Len(a))
        m   == IF rev THEN min ELSE max
        ms  == IF m.kind = "list" THEN m.v ELSE [k \in 1..Len(a) |-> m.v[1]]
        st2 == IF m.kind = "none" THEN [st1 EXCEPT !.out = st1.ra]
               ELSE cap_loop([st1 EXCEPT !.d = Zero, !.m = ms], 1)
    IN  st2

balance(a, min, max) ==
    IF a = << >> THEN a
    ELSE CHOOSE r \in { IF st.rev THEN negated(st.out) ELSE st.out :
                           st \in { balance_run(a, min, max) } } : TRUE

(* the entries of a that balance(a, min, max) capped at their limit *)
capped(a, min, max) ==
    IF a = << >> THEN {} ELSE balance_run(a, min, max).capped

(* self.load, set by to_phases: the negated readings of the AC consumption *)
load == negated(sig.p_cons_)

(* the shares computed from the readings themselves *)
ps_by_reading(p) ==
    LET avg == RDiv(RSum(sig.p_cons_), R(n_phase))
    IN  [k \in 1..n_phase |-> RSub(RDiv(p, R(n_phase)), RSub(sig.p_cons_[k], avg))]

(* ps of to_phases before it is balanced *)
ps(p) ==
    LET load_avg == RDiv(RSum(load), R(n_phase))
    IN  [k \in 1..n_phase |-> RSub(RDiv(p, R(n_phase)), RSub(load[k], load_avg))]

(* InvControl.to_phases(p) *)
to_phases(p) ==
    IF n_phase = 0 THEN << >>
    ELSE balance(ps(p), Num(RNeg(par.p_per_phase)), Num(par.p_per_phase))

(* The working values of calc_inv_p between two rules: the request (init), *)
(* the excess, and p, i_inv, i_batt with the rules that fired so far.      *)
calc_start(p, excess) ==
    [ init |-> p, excess |-> excess, p |-> p, i_inv |-> i_from_p(p, TRUE),
      i_batt |-> RSub(RNeg(i_from_p(p, TRUE)), i_pv), fired |-> {} ]

(* I_PVD: the PV input is close to the maximum, increase power *)
rule_I_PVD(c) ==
    LET i_max == RSub(ib_max, c.i_inv)
    IN  IF RLt(par.pv_delta, i_pv_max) /\ RLt(RSub(i_max, c.i_batt), par.pv_delta)
        THEN [c EXCEPT !.i_batt = RSub(i_max, par.pv_delta), !.fired = @ \cup { "I_PVD" }]
        ELSE c

(* U_MAX: the battery voltage nears its maximum *)
rule_U_MAX(c) ==
    LET i_maxchg == RDiv(RMul(RDiv(sig.b_cap, par.cap_scale),
                              RSub(IF par.top_off THEN Zero ELSE par.umax_diff,
                                   RSub(sig.u_max, u_dc))),
                         par.umax_diff)
    IN  IF RLt(c.i_batt, i_maxchg)
        THEN [c EXCEPT !.i_batt = i_maxchg, !.i_inv = RSub(RNeg(i_maxchg), i_pv),
                       !.fired = @ \cup { "U_MAX" }]
        ELSE c

(* U_MIN: the battery voltage nears its minimum *)
rule_U_MIN(c) ==
    LET i_maxdis == RDiv(RMul(RNeg(RDiv(sig.b_cap, par.cap_scale)),
                              RSub(par.umin_diff, RSub(u_dc, sig.u_min))),
                         par.umin_diff)
    IN  IF RLt(i_maxdis, c.i_batt)
        THEN [c EXCEPT !.i_batt = i_maxdis, !.i_inv = RSub(RNeg(i_maxdis), i_pv),
                       !.fired = @ \cup { "U_MIN" }]
        ELSE c

(* I_MAX: keep pv_delta between the PV current and its limit *)
rule_I_MAX(c) ==
    LET i_pvm == RSub(RNeg(ib_min), c.i_inv)
        d     == RSub(par.pv_delta, RSub(i_pvm, i_pv))
    IN  IF RLt(RSub(i_pvm, i_pv), par.pv_delta)
        THEN [c EXCEPT !.i_batt = RSub(c.i_batt, d),
                       !.i_inv = RSub(RNeg(RSub(c.i_batt, d)), i_pv),
                       !.fired = @ \cup { "I_MAX" }]
        ELSE c

(* P_MIN: the AC power the inverter may send to the grid *)
rule_P_MIN(c) ==
    LET p == p_from_i(c.i_inv, FALSE)
    IN  IF RLt(p, par.pg_min)
        THEN [c EXCEPT !.p = par.pg_min, !.fired = @ \cup { "P_MIN" }]
        ELSE [c EXCEPT !.p = p]

(* P_MAX: the AC power the inverter may take from the grid *)
rule_P_MAX(c) ==
    IF RLt(par.pg_max, c.p)
    THEN [c EXCEPT !.p = par.pg_max, !.fired = @ \cup { "P_MAX" }]
    ELSE c

(* I_MIN: stay on the safe side of a drop of the PV input.  i_inv is       *)
(* recomputed from p, i_batt only when the rule fires.                     *)
rule_I_MIN(c) ==
    LET i_inv    == i_from_p(c.p, TRUE)
        i_pv_min == RMul(i_pv_max, par.pv_margin)
    IN  IF RLt(ib_max, RSub(RNeg(i_inv), i_pv_min))
        THEN [c EXCEPT !.i_inv = RSub(RNeg(i_pv_min), ib_max),
                       !.i_batt = RSub(RNeg(RSub(RNeg(i_pv_min), ib_max)), i_pv),
                       !.fired = @ \cup { "I_MIN" }]
        ELSE [c EXCEPT !.i_inv = i_inv]

(* IB_ERR_L: don't push more into the battery than allowed *)
rule_IB_ERR_L(c) ==
    IF RLt(c.i_batt, ib_min)
    THEN [c EXCEPT !.i_batt = ib_min, !.i_inv = RSub(RNeg(ib_min), i_pv),
                   !.fired = @ \cup { "IB_ERR_L" }]
    ELSE c

(* IB_ERR_H: don't pull more from the battery than allowed *)
rule_IB_ERR_H(c) ==
    IF RLt(ib_max, c.i_batt)
    THEN [c EXCEPT !.i_batt = ib_max, !.i_inv = RSub(RNeg(ib_max), i_pv),
                   !.fired = @ \cup { "IB_ERR_H" }]
    ELSE c

(* back to the AC side with the efficiency applied the other way *)
rule_P_EXC_same_rev(c) ==
    LET p == p_from_i(c.i_inv, TRUE)
    IN  IF ~IsNone(c.excess) /\ RLt(Zero, p) /\ RLt(RAdd(c.init, c.excess), p)
        THEN [c EXCEPT !.p = RAdd(c.init, c.excess), !.fired = @ \cup { "P_EXC" }]
        ELSE [c EXCEPT !.p = p]

(* back to the AC side, and P_EXC: the cap on the excess over the request *)
rule_P_EXC(c) ==
    LET p == p_from_i(c.i_inv, FALSE)
    IN  IF ~IsNone(c.excess) /\ RLt(Zero, p) /\ RLt(RAdd(c.init, c.excess), p)
        THEN [c EXCEPT !.p = RAdd(c.init, c.excess), !.fired = @ \cup { "P_EXC" }]
        ELSE [c EXCEPT !.p = p]

(* the rules in the order calc_inv_p applies them *)
Rules == << "I_PVD", "U_MAX", "U_MIN", "I_MAX", "P_MIN", "P_MAX", "I_MIN",
            "IB_ERR_L", "IB_ERR_H", "P_EXC" >>

apply_rule(r, c) ==
    CASE r = "I_PVD"    -> rule_I_PVD(c)
      [] r = "U_MAX"    -> rule_U_MAX(c)
      [] r = "U_MIN"    -> rule_U_MIN(c)
      [] r = "I_MAX"    -> rule_I_MAX(c)
      [] r = "P_MIN"    -> rule_P_MIN(c)
      [] r = "P_MAX"    -> rule_P_MAX(c)
      [] r = "I_MIN"    -> rule_I_MIN(c)
      [] r = "IB_ERR_L" -> rule_IB_ERR_L(c)
      [] r = "IB_ERR_H" -> rule_IB_ERR_H(c)
      [] r = "P_EXC"    -> rule_P_EXC(c)

(* the working values after rules k .. Len(Rules), each rule applied to    *)
(* the values its predecessor left                                         *)
RECURSIVE calc_rules(_, _)
calc_rules(c, k) ==
    IF k > Len(Rules) THEN c
    ELSE CHOOSE r \in { calc_rules(d, k + 1) : d \in { apply_rule(Rules[k], c) } } : TRUE

(* the setpoint on every phase *)
inv_phases_each(np, phase) == [k \in 1..n_phase |-> np]

(* p_info["inv_phases"]: the setpoint np on the phase given, or on all of *)
(* them when there is more than one and none is given                      *)
inv_phases(np, phase) ==
    IF phase = 0 /\ n_phase > 1 THEN to_phases(np)
    ELSE [k \in 1..n_phase |->
             IF k = (IF phase # 0 THEN phase ELSE 1) THEN np ELSE Zero]

(* the damper (P_GRAD), the distribution to the phases and the correction *)
(* by the loads on the output of the inverter                              *)
calc_finish(c, phase) ==
    LET direct  == \/ RLe(par.f_delta, batt_soc) /\ RLe(batt_soc, RSub(R(1), par.f_delta))
                   \/ small_p_step(last_p, c.p)
        same    == small_p_step(dest_p, c.p)
        nostep  == ~direct /\ same /\ step = 0       \* self.step += 1 before any assignment
        step1   == IF direct THEN 1 ELSE IF same THEN step + 1 ELSE 2
        pd0     == RMul(RSub(c.p, last_p), pow_f_step(step1))
        pd      == IF RLt(RAbs(pd0), par.p_step)
                   THEN RMul(par.p_step, IF RLt(pd0, Zero) THEN R(-1) ELSE R(1))
                   ELSE pd0
        np      == IF direct THEN c.p ELSE RAdd(last_p, pd)
        fired   == IF direct THEN c.fired ELSE c.fired \cup { "P_GRAD" }
        lims    == SelectNames(<< "I_PVD", "U_MAX", "U_MIN", "I_MAX", "P_MIN", "P_MAX",
                                  "I_MIN", "P_EXC", "P_GRAD" >>, fired)
        nocons  == phase = 0 /\ n_phase > 1
                      /\ \E k \in 1..n_phase : IsNone(sig.p_cons_[k])
        nocrit  == \E k \in 1..n_phase : IsNone(sig.p_crit_[k])
        late    == IF phase > n_phase THEN "IndexError"
                   ELSE IF nocons \/ nocrit THEN "TypeError" ELSE "none"
    IN  IF nostep THEN NoCalc("AttributeError")
        ELSE [ exc |-> late,
               phases |-> IF late = "none"
                          THEN CHOOSE v \in { [k \in 1..n_phase |->
                                                  RSub(d[k], sig.p_crit_[k])] :
                                               d \in { inv_phases(np, phase) } } : TRUE
                          ELSE << >>,
               init |-> c.init, phase |-> phase, p |-> c.p, np |-> np,
               i_batt |-> c.i_batt, i_inv |-> c.i_inv,
               lims |-> lims, fired |-> fired,
               step |-> step1, last_p |-> np, dest_p |-> c.p ]

(* InvControl.calc_inv_p(p, excess, phase): excess = None for "no excess", *)
(* phase = 0 for "no phase".  The result carries the return value          *)
(* (phases), the exception raised instead of it (exc), the working values  *)
(* after the rule pipeline and the new damper state.                       *)
calc_inv_p(p, excess, phase) ==
    IF n_phase = 0 THEN NoCalc("none")
    ELSE IF SignalAbsent THEN NoCalc("TypeError")
    ELSE CHOOSE r \in { calc_finish(c, phase) :
                          c \in { calc_rules(d, 1) : d \in { calc_start(p, excess) } } } : TRUE

calc_inv_i(i) == calc_inv_p(p_from_i(i, FALSE), None, 0)

calc_batt_i(i) ==
    IF IsNone(sig._ib_dis) \/ IsNone(sig._ib_chg) \/ IsNone(sig._i_pv)
           \/ IsNone(sig._u_dc) \/ IsNone(sig._i_batt)
    THEN NoCalc("TypeError")
    ELSE LET ii == RMax(ib_min, RMin(i, ib_max))
         IN  calc_inv_i(RSub(RNeg(ii), i_pv))

calc_grid_p(p, excess) ==
    IF \E k \in 1..Len(sig.p_cons_) : IsNone(sig.p_cons_[k])
    THEN NoCalc("TypeError")
    ELSE calc_inv_p(RSub(RNeg(p_cons), p), excess, 0)

-----------------------------------------------------------------------------
(* Mode registry, parameter documentation, operator parameters.            *)

(* InvControl.MODES: the _name of every InvModeBase subclass the loader    *)
(* registers.                                                              *)
MODES == { "off", "idle", "gridsetpoint", "p_inv", "i_batt", "soc", "remote", "analyze" }

(* The _doc mapping of each mode class: the keys SetModeParam accepts.     *)
_doc(m) ==
    CASE m = "off"          -> { "power", "_l" }
      [] m = "idle"         -> { "power", "_l" }
      [] m = "gridsetpoint" -> { "feedin", "excess", "phase", "_l" }
      [] m = "p_inv"        -> { "power", "excess", "phase", "_l" }
      [] m = "i_batt"       -> { "current", "_l" }
      [] m = "soc"          -> { "power_in", "power_out", "dest_soc", "_l" }
      [] m = "remote"       -> { "power", "power_low", "power_ref", "power_override",
                                 "limit", "p_limit", "low_grid", "soc_low_zero",
                                 "soc_low", "soc_low_ok", "soc_high", "soc_high_ok",
                                 "level", "_l" }
      [] m = "analyze"      -> { "p_chg", "p_dis", "excess", "balance", "skip",
                                 "e_dis", "e_chg", "use_grid", "_l" }

(* The keys of self.op the model tracks; any other key reads as missing.   *)
OpKeys ==
    { "power", "dest_soc", "fake", "skip", "use_grid", "p_dis", "e_dis", "e_chg",
      "power_in", "power_out" }

NoData == [k \in OpKeys |-> None]

(* dict.update and dict.setdefault on the tracked keys *)
update(o, data)     == [k \in OpKeys |-> IF IsNone(data[k]) THEN o[k] ELSE data[k]]
setdefault(o, dflt) == [k \in OpKeys |-> IF IsNone(o[k]) THEN dflt[k] ELSE o[k]]

(* self.op.get(key, default) *)
op_get(key, default) == IF IsNone(op[key]) THEN default ELSE op[key]

(* truth value of a number: self.op.get("fake", False) *)
fake == op_get("fake", Zero) # Zero

-----------------------------------------------------------------------------
(* Bounded inputs.                                                         *)

(* mode names a caller may send: the registered ones, the name p_grid the  *)
(* analysis hands off to, and a stray one                                  *)
ReqModes == MODES \cup { "p_grid", "bogus" }

(* parameter sets of SetMode: at most one tracked key is submitted *)
DataInputs ==
    { NoData } \cup
    { [NoData EXCEPT !["power"] = R(500)],
      [NoData EXCEPT !["dest_soc"] = Q(8, 10)],
      [NoData EXCEPT !["dest_soc"] = Q(3, 10), !["power_in"] = R(500),
                     !["power_out"] = R(-500)] }

(* keys and value of SetModeParam *)
ParamInputs == { "", "_l", "power", "dest_soc", "fake", "bogus" }
ParamValue(key) ==
    CASE key = "dest_soc" -> Q(8, 10)
      [] OTHER            -> R(500)

(* configurations: the default mode, and cfg["modes"][name] *)
NoCfgModes == [m \in MODES |-> NoData]

CfgModes ==
    { NoCfgModes,
      [m \in MODES |-> IF m = "p_inv" THEN [NoData EXCEPT !["power"] = R(100)] ELSE NoData] }

CfgDefaults == { "off", "p_inv" }

Fakes == { None, R(1) }

(* the parameters of an analysis: skip, use_grid, p_dis, e_dis and e_chg *)
analysis(skip, grid, pdis, edis, echg) ==
    [NoData EXCEPT !["skip"] = R(skip), !["use_grid"] = R(grid), !["p_dis"] = R(pdis),
                   !["e_dis"] = R(edis), !["e_chg"] = R(echg)]

AnalysisData ==
    { analysis(0, 0, 0, 0, 0), analysis(0, 1, -100, 0, 0),
      analysis(5, 0, 0, 20000, 10000), analysis(6, 0, 0, 9500, 10000),
      analysis(7, 0, 0, 9500, 10000) }

(* what the BMS reports as work done: the first element of get_bms_work *)
NoWork == [ chg |-> R(0), dis |-> R(0) ]

BmsWork == { [ chg |-> R(200), dis |-> R(9500) ], [ chg |-> R(10000), dis |-> R(300) ] }

PvValues == { None, R(0) }

(* The environments.  Each behaviour draws its requests and signal updates *)
(* from one of them:                                                       *)
(*   names    every mode name is requested, without parameters;            *)
(*   params   parameters are submitted and changed, with and without       *)
(*            configured defaults;                                         *)
(*   signals  the PV current comes and goes, op.fake is set or not, the    *)
(*            configuration has a default for the inverter power;          *)
(*   analysis the capacity analysis is requested with its parameters, the  *)
(*            BMS reports the work done.                                   *)
Envs ==
    { [ name |-> "names", modes |-> ReqModes, data |-> { NoData }, params |-> {},
        pv |-> { R(0) }, cfgs |-> [ default : CfgDefaults, modes : { NoCfgModes } ],
        fakes |-> { None }, work |-> { NoWork } ],
      [ name |-> "params", modes |-> { "p_inv", "soc", "p_grid" }, data |-> DataInputs,
        params |-> ParamInputs, pv |-> { R(0) },
        cfgs |-> [ default : { "off" }, modes : CfgModes ], fakes |-> { None },
        work |-> { NoWork } ],
      [ name |-> "signals", modes |-> { "p_inv", "i_batt", "soc", "off", "idle" },
        data |-> { NoData }, params |-> {}, pv |-> PvValues,
        cfgs |-> [ default : { "p_inv" }, modes : CfgModes \ { NoCfgModes } ],
        fakes |-> Fakes, work |-> { NoWork } ],
      [ name |-> "analysis", modes |-> { "analyze" }, data |-> AnalysisData,
        params |-> {}, pv |-> { R(0) },
        cfgs |-> [ default : { "p_inv" }, modes : { NoCfgModes } ],
        fakes |-> { None }, work |-> BmsWork ] }

(* the environment of the averaging tasks: the PV current rises above the *)
(* threshold of _avg_task and falls, the battery current comes and goes    *)
AvgEnv ==
    [ name |-> "averages", modes |-> { "p_inv" }, data |-> { NoData }, params |-> {},
      pv |-> { None, R(0), R(400), R(2000) },
      cfgs |-> [ default : { "p_inv" }, modes : { NoCfgModes } ],
      fakes |-> { None }, work |-> { NoWork } ]

BattReadings == { None, R(0), R(8) }

(* the environment of this behaviour *)
Env == CHOOSE e \in Envs \cup { AvgEnv } : e.name = env

(* at most this many _run_mode_task coroutines exist at a time *)
MaxTasks == 2

Slots == 1..MaxTasks

(* InvMode_Analyze: the energies the instance holds and the locals of its  *)
(* run(): the step it is in (0..4 the step loops, 5 the calculation, 6    *)
(* the hand-off), what is left of skip, the keys of inf, the number of    *)
(* set_bms_capacity calls made, and whether the task has emitted since    *)
(* the step began                                                         *)
NoAn ==
    [ step |-> 0, skip |-> 0, e_dis |-> None, e_chg |-> None,
      e_dis_c |-> Zero, e_chg_d |-> Zero, inf |-> {}, programmed |-> 0,
      looped |-> FALSE ]

FreeTask == [ st |-> "free", mode |-> "", pc |-> "", running |-> FALSE, an |-> NoAn ]

(* the system parameters of the single-phase test bench (test_inv.FakeInv) *)
TestPar ==
    [ f_step |-> Q(35, 100), p_step |-> R(100), f_delta |-> Q(2, 10),
      top_off |-> FALSE, umax_diff |-> Q(1, 1000), umin_diff |-> Q(1, 1000),
      pg_min |-> R(-1100), pg_max |-> R(1100), inv_eff |-> Q(1, 4),
      p_per_phase |-> R(1000), pv_margin |-> Q(1, 2), pv_delta |-> R(10),
      cap_scale |-> R(4), r_int |-> Q(1, 100) ]

TestSig ==
    [ n_phase |-> 1, _u_dc |-> R(100), _i_batt |-> R(0), _i_pv |-> R(0),
      _batt_soc |-> R(50), _ib_chg |-> R(20), _ib_dis |-> R(40),
      _ok_chg |-> TRUE, _ok_dis |-> TRUE, u_max |-> R(200), u_min |-> R(50),
      b_cap |-> R(1000), p_cons_ |-> << R(0) >>, p_crit_ |-> << R(0) >>,
      p_grid_ |-> << R(0) >>, p_run_ |-> << R(0) >> ]

(* ---- the averaging tasks ------------------------------------------------ *)
(* b_last and i_batt_avg of _i_batt_task, with the event it sets; decays   *)
(* counts the times _avg_task lowered the maximum; spin: _avg_task is in   *)
(* an iteration that does not suspend                                      *)
(* an analysis that has not called balance(); calm counts the polls in a   *)
(* row that read min_cell >= umin and max_cell - min_cell below 3 d        *)
NoTop ==
    [ pc |-> "idle", n |-> 0, min |-> None, max |-> None, calm |-> 0, emits |-> 0,
      held |-> 0 ]

(* a mode object after InvModeBase.__init__, outside set_inv_ps; p and pp  *)
(* are the locals of the loop, prev is the sample before p, polls the      *)
(* number of reads of p_inv in the loop,                                   *)
(* seen whether a wait since the last emission ended by an update          *)
NoSettle ==
    [ pc |-> "idle", initial |-> FALSE, n |-> 0, nt |-> FALSE, p |-> Zero, pp |-> None,
      prev |-> None,
      polls |-> 0, seen |-> FALSE, running |-> FALSE, emits |-> 0,
      req |-> << >>, ps |-> << >>, min |-> NoLimit, max |-> NoLimit ]

NoAvg ==
    [ b_last |-> << None, None, None, None >>, i_batt_avg |-> None, evt |-> FALSE,
      decays |-> 0, spin |-> FALSE ]

(* ---- a published signal: DbusItemExport and DbusItemImport -------------- *)
(* Python values a signal holds: None, an int, a float (its value is kept  *)
(* as the integer it equals) and the empty list.                           *)
PyNone == [ t |-> "none", v |-> 0 ]
PyInt(n) == [ t |-> "int", v |-> n ]
PyFloat(n) == [ t |-> "float", v |-> n ]
PyList == [ t |-> "list", v |-> 0 ]

(* a == b of Python: numbers compare by value, whatever their type *)
PyEq(a, b) ==
    IF a.t \in { "int", "float" } /\ b.t \in { "int", "float" }
    THEN a.v = b.v
    ELSE a = b

(* Variant(signature, value) *)
Variant(s, x) == [ sig |-> s, value |-> x ]

VEDBUS_INVALID == Variant("ai", PyList)

wrap_dbus_value(x) ==
    CASE x.t = "none"  -> VEDBUS_INVALID
      [] x.t = "float" -> Variant("d", x)
      [] x.t = "int"   -> IF 0 <= x.v /\ x.v < 256 THEN Variant("y", x)
                          ELSE IF -32768 <= x.v /\ x.v < 32768 THEN Variant("n", x)
                          ELSE IF 0 <= x.v /\ x.v < 65536 THEN Variant("q", x)
                          ELSE Variant("i", x)
      [] x.t = "list"  -> Variant("au", PyList)

unwrap_dbus_value(w) ==
    IF w = VEDBUS_INVALID THEN PyNone ELSE w.value

(* the item as constructed, with the importer's cache of it; ret is the    *)
(* code the last SetValue returned (-1: none yet), wire what it was given, *)
(* calls, asked and sent count the calls of SetValue and of the change     *)
(* callback and the PropertiesChanged signals, answer is what the callback *)
(* said during the last SetValue ("" when it was not called)               *)
NoItem ==
    [ _value |-> PyNone, _writeable |-> FALSE, _onchangecallback |-> FALSE,
      _cachedvalue |-> PyNone, ret |-> -1, wire |-> VEDBUS_INVALID, calls |-> 0,
      asked |-> 0, sent |-> 0, answer |-> "" ]

(* no function has been called on its own *)
NoCall == [ fn |-> "none", a |-> << >>, min |-> NoLimit, max |-> NoLimit,
            p |-> Zero, rev |-> FALSE, out |-> << >> ]

NoReq == [ kind |-> "", mode |-> "", key |-> "", result |-> "", window |-> FALSE,
           same |-> FALSE ]

NoSwitch == NoData

NoSet == [ wrote |-> FALSE, fake |-> FALSE ]

-----------------------------------------------------------------------------
(* Control surface: InvInterface.SetMode / SetModeParam.                   *)

(* the run loop is between `self._change_mode_evt = None` and the          *)
(* assignment of a new event after anyio.sleep(30)                         *)
Alive == crashed = "" /\ ~averages.spin

InWindow == pcRun \in { "stopping", "sleep" }

(* change_mode without the test of self._change_mode_evt *)
change_mode_result_always(mode) ==
    IF _mode # mode
    THEN IF mode \notin MODES THEN "unknown" ELSE "ok"
    ELSE "ok"

(* InvControl.change_mode: the fault it raises, or "ok" *)
change_mode_result(mode) ==
    IF _mode # mode
    THEN IF _change_mode_evt = "None" THEN "too_early"
         ELSE IF mode \notin MODES THEN "unknown"
         ELSE "ok"
    ELSE "ok"

(* InvControl.change_mode: its effect on the controller when it returns True *)
change_mode_effect(mode, data) ==
    /\ _mode' = mode
    /\ _change_mode_evt' = IF _mode # mode THEN "set" ELSE _change_mode_evt
    /\ op' = setdefault(update(op, data), cfg.modes[mode])

(* a change_mode that merges the submitted parameters before it raises *)
SetMode_merging(mode, data) ==
    /\ Alive
    /\ pcRun # "decide"
    /\ LET r == change_mode_result(mode) IN
       /\ lastReq' = [ kind |-> "SetMode", mode |-> mode, key |-> "", result |-> r,
                       window |-> InWindow, same |-> (_mode = mode) ]
       /\ IF r = "ok"
          THEN /\ change_mode_effect(mode, data)
               /\ lastSwitch' = IF _mode # mode THEN data
                                ELSE IF data = NoData THEN lastSwitch
                                ELSE NoData
          ELSE /\ op' = update(op, data)
               /\ UNCHANGED << _mode, _change_mode_evt, lastSwitch >>
    /\ UNCHANGED << bms_cap, call, env, settle, topbal, item, averages, ncalc, cfg, _mode_task, _mode_task_stopped, pcRun, tasks, crashed,
                    sig, par, i_pv_max, last_p, dest_p, step, p_set, lastSet, res >>

SetMode(mode, data) ==
    /\ Alive
    /\ pcRun # "decide"
    /\ LET r == change_mode_result(mode) IN
       /\ lastReq' = [ kind |-> "SetMode", mode |-> mode, key |-> "", result |-> r,
                       window |-> InWindow, same |-> (_mode = mode) ]
       /\ IF r = "ok"
          THEN /\ change_mode_effect(mode, data)
               /\ lastSwitch' = IF _mode # mode THEN data
                                ELSE IF data = NoData THEN lastSwitch
                                ELSE NoData
          ELSE UNCHANGED << _mode, _change_mode_evt, op, lastSwitch >>
    /\ UNCHANGED << bms_cap, call, env, settle, topbal, item, averages, ncalc, cfg, _mode_task, _mode_task_stopped, pcRun, tasks, crashed,
                    sig, par, i_pv_max, last_p, dest_p, step, p_set, lastSet, res >>

(* the keys among the inputs and the documented ones with param[0] == '_' *)
UnderscoreKeys == { "_l" }

(* change_mode_param without the test of param[0] *)
change_mode_param_result_any(param) ==
    IF param = "" \/ param \notin _doc(_mode)
    THEN "unknown" ELSE "ok"

(* InvControl.change_mode_param: the fault it raises, or "ok" *)
change_mode_param_result(param) ==
    IF param = "" \/ param \in UnderscoreKeys \/ param \notin _doc(_mode)
    THEN "unknown" ELSE "ok"

SetModeParam(param, value) ==
    /\ Alive
    /\ pcRun # "decide"
    /\ LET r == change_mode_param_result(param) IN
       /\ lastReq' = [ kind |-> "SetModeParam", mode |-> "", key |-> param,
                       result |-> r, window |-> FALSE, same |-> TRUE ]
       /\ IF r = "ok"
          THEN /\ op' = [op EXCEPT ![param] = value]
               /\ lastSwitch' = NoData
          ELSE UNCHANGED << op, lastSwitch >>
    /\ UNCHANGED << bms_cap, call, env, settle, topbal, item, averages, ncalc, cfg, _mode, _change_mode_evt, _mode_task, _mode_task_stopped,
                    pcRun, tasks, crashed, sig, par, i_pv_max, last_p, dest_p, step,
                    p_set, lastSet, res >>

-----------------------------------------------------------------------------
(* Mode tasks: InvControl._run_mode_task and the run() of each mode.       *)

(* truth value of o.get("fake", False) *)
op_fake(o) == ~IsNone(o["fake"]) /\ o["fake"] # Zero

(* set_inv_ps without the test of op.fake *)
set_inv_ps_always(s, r, o) ==
    IF r.exc # "none" \/ n_phase = 0
    THEN UNCHANGED << p_set, lastSet >>
    ELSE /\ lastSet' = [ wrote |-> TRUE, fake |-> op_fake(o) ]
         /\ p_set' = [k \in 1..n_phase |-> RNeg(r.phases[k])]

(* InvControl.set_inv_ps as called by InvModeBase.set_inv_ps with the      *)
(* result r of a calc_* call by task s; o is self.op at that time.         *)
(* An exception of the calc call leaves the task before anything is set.   *)
set_inv_ps(s, r, o) ==
    IF r.exc # "none" \/ n_phase = 0
    THEN UNCHANGED << p_set, lastSet >>
    ELSE IF op_fake(o)
    THEN /\ lastSet' = [ wrote |-> FALSE, fake |-> op_fake(o) ]
         /\ UNCHANGED p_set
    ELSE /\ lastSet' = [ wrote |-> TRUE, fake |-> op_fake(o) ]
         /\ p_set' = [k \in 1..n_phase |-> RNeg(r.phases[k])]

(* ---- InvModeBase.set_inv_ps: the limits of the inverters --------------- *)

(* "no limit known" in self.ps_min and self.ps_max *)
NoMin == R(-999999999)
NoMax == R(999999999)

(* first pass, phase i: the limits of inverter i as the telemetry t        *)
(* (t.p_set and t.p_run, the values of intf.p_set_ and intf.p_run_) shows  *)
(* them, and what the request req asks beyond them; st holds ps_min,        *)
(* ps_max, pd_min and pd_max                                               *)
first_pass_step(st, req, i, t) ==
    LET p     == req[i]
        pset  == t.p_set[i]
        p_run == t.p_run[i]
        p_min == st.ps_min[i]
        p_max == st.ps_max[i]
    IN  IF RLt(pset, Zero) THEN
            IF RLt(pset, RSub(p_run, R(20)))
            THEN [st EXCEPT !.ps_min[i] = p_run,
                            !.pd_min = IF RLt(p, p_run)
                                       THEN RAdd(@, RSub(RSub(p_run, p), R(50))) ELSE @]
            ELSE IF p_min = NoMin THEN st
            ELSE IF RLe(RSub(p_run, R(10)), p_min) THEN [st EXCEPT !.ps_min[i] = NoMin]
            ELSE IF RLt(p, Zero) /\ RLt(p, RSub(p_min, R(50)))
            THEN [st EXCEPT !.pd_min = RAdd(@, RSub(RSub(p_min, p), R(50)))]
            ELSE st
        ELSE IF RLt(Zero, pset) THEN
            IF RLt(RAdd(p_run, R(20)), pset)
            THEN [st EXCEPT !.ps_max[i] = p_run,
                            !.pd_max = IF RLt(p_run, p)
                                       THEN RAdd(@, RAdd(RSub(p, p_run), R(50))) ELSE @]
            ELSE IF p_max = NoMax THEN st
            ELSE IF RLe(p_max, RSub(p_run, R(10))) THEN [st EXCEPT !.ps_max[i] = NoMax]
            ELSE IF RLt(Zero, p) /\ RLt(RSub(p_max, R(50)), p)
            THEN [st EXCEPT !.pd_max = RAdd(@, RAdd(RSub(p_max, p), R(50)))]
            ELSE st
        ELSE st

RECURSIVE first_pass(_, _, _, _)
first_pass(st, req, i, t) ==
    IF i > Len(req) THEN st
    ELSE CHOOSE r \in { first_pass(u, req, i + 1, t) :
                           u \in { first_pass_step(st, req, i, t) } } : TRUE

(* pa.sort(key=...): pa is a list of pairs <<i, v>>, key[i] the key of     *)
(* phase i; the sort is ascending and stable                               *)
sorted_pa(pa, key) ==
    LET before(j, k) == RLt(key[pa[j][1]], key[pa[k][1]])
                        \/ (key[pa[j][1]] = key[pa[k][1]] /\ j < k)
        pos(k) == 1 + Cardinality({ j \in 1..Len(pa) : before(j, k) })
    IN  [n \in 1..Len(pa) |-> pa[CHOOSE k \in 1..Len(pa) : pos(k) = n]]

(* second pass, power out: entry k of the sorted list, the last first;     *)
(* st holds the list pb and d_min                                          *)
min_pass_step(st, pa, ps_min, k) ==
    LET i     == pa[k][1]
        v     == pa[k][2]
        p_min == ps_min[i]
        pp    == RDiv(st.d, R(k))
    IN  IF RLt(v, p_min)
        THEN [ d |-> RAdd(st.d, RSub(p_min, v)),
               pb |-> Append(st.pb, << i, RSub(p_min, R(50)) >>) ]
        ELSE IF RLt(RSub(v, pp), p_min)
        THEN [ d |-> RSub(st.d, RSub(v, p_min)),
               pb |-> Append(st.pb, << i, RSub(p_min, R(50)) >>) ]
        ELSE [ d |-> RSub(st.d, RAdd(pp, R(50))),
               pb |-> Append(st.pb, << i, RSub(v, RAdd(pp, R(50))) >>) ]

RECURSIVE min_pass(_, _, _, _)
min_pass(st, pa, ps_min, k) ==
    IF k = 0 THEN st
    ELSE CHOOSE r \in { min_pass(t, pa, ps_min, k - 1) :
                           t \in { min_pass_step(st, pa, ps_min, k) } } : TRUE

(* second pass, power in: what is over the limit is not added to d_max *)
max_pass_step(st, pa, ps_max, k) ==
    LET i     == pa[k][1]
        v     == pa[k][2]
        p_max == ps_max[i]
        pp    == RDiv(st.d, R(k))
    IN  IF RLt(p_max, v)
        THEN [ d |-> st.d, pb |-> Append(st.pb, << i, RAdd(p_max, R(50)) >>) ]
        ELSE IF RLt(p_max, RAdd(v, pp))
        THEN [ d |-> RSub(st.d, RSub(p_max, v)),
               pb |-> Append(st.pb, << i, RAdd(p_max, R(50)) >>) ]
        ELSE [ d |-> RSub(st.d, RAdd(pp, R(50))),
               pb |-> Append(st.pb, << i, RAdd(v, RAdd(pp, R(50))) >>) ]

RECURSIVE max_pass(_, _, _, _)
max_pass(st, pa, ps_max, k) ==
    IF k = 0 THEN st
    ELSE CHOOSE r \in { max_pass(t, pa, ps_max, k - 1) :
                           t \in { max_pass_step(st, pa, ps_max, k) } } : TRUE

(* InvModeBase.set_inv_ps(req) up to the call of intf.set_inv_ps, with      *)
(* n_phase > 0: the vector passed on and the new self.ps_min, self.ps_max; *)
(* mn and mx are self.ps_min and self.ps_max, running is self.running, t   *)
(* the telemetry read                                                      *)
inv_ps_limited_on(req, mn, mx, running, t) ==
    LET n   == n_phase
        l0  == IF mn.kind = "none" THEN [ ps_min |-> [k \in 1..n |-> NoMin],
                                          ps_max |-> [k \in 1..n |-> NoMax] ]
               ELSE [ ps_min |-> mn.v, ps_max |-> mx.v ]
    IN  IF ~(running /\ n > 1) THEN [ ps |-> req, ps_min |-> l0.ps_min, ps_max |-> l0.ps_max ]
        ELSE LET f   == first_pass([ ps_min |-> l0.ps_min, ps_max |-> l0.ps_max,
                                     pd_min |-> Zero, pd_max |-> Zero ], req, 1, t)
                 pa0 == [k \in 1..n |-> << k, req[k] >>]
                 pa1 == IF RLt(Zero, f.pd_min)
                        THEN min_pass([ d |-> Zero, pb |-> << >> ],
                                      sorted_pa(pa0, [k \in 1..n |->
                                                        RAdd(RNeg(req[k]), f.ps_min[k])]),
                                      f.ps_min, n).pb
                        ELSE pa0
                 pa2 == IF RLt(Zero, f.pd_max)
                        THEN max_pass([ d |-> Zero, pb |-> << >> ],
                                      sorted_pa(pa1, [k \in 1..n |->
                                                        RSub(req[k], f.ps_max[k])]),
                                      f.ps_max, n).pb
                        ELSE pa1
             IN  [ ps |-> [k \in 1..n |->
                             (CHOOSE x \in { pa2[j] : j \in 1..n } : x[1] = k)[2]],
                   ps_min |-> f.ps_min, ps_max |-> f.ps_max ]

(* the telemetry of the inverters: the setpoints written, the power run *)
inv_telemetry == [ p_set |-> p_set, p_run |-> sig.p_run_ ]

inv_ps_limited(req, mn, mx, running) ==
    inv_ps_limited_on(req, mn, mx, running, inv_telemetry)

(* the pass on the negated request, telemetry and limits, negated again *)
negated_limit(l) == IF l.kind = "none" THEN l ELSE [l EXCEPT !.v = negated(@)]

inv_ps_mirrored(req, mn, mx, running) ==
    LET r == inv_ps_limited_on(negated(req), negated_limit(mx), negated_limit(mn), running,
                               [ p_set |-> negated(p_set), p_run |-> negated(sig.p_run_) ])
    IN  [ ps |-> negated(r.ps), ps_min |-> negated(r.ps_max), ps_max |-> negated(r.ps_min) ]

(* the damper state and the diagnostic snapshot a calc_* call leaves *)
(* the damper state with the target of the call before kept *)
calc_state_stale_dest(r) ==
    /\ last_p' = r.last_p
    /\ dest_p' = dest_p
    /\ step' = r.step

(* a call that does not store the damper state *)
calc_state_forget(r) ==
    /\ last_p' = last_p
    /\ dest_p' = dest_p
    /\ step' = step

calc_state(r) ==
    /\ last_p' = r.last_p
    /\ dest_p' = r.dest_p
    /\ step' = r.step

get(o, key, default) == IF IsNone(o[key]) THEN default ELSE o[key]

(* InvMode_SetSOC.run, second half of the loop body: the request chosen    *)
(* by the SoC comparison                                                   *)
soc_request(o) ==
    IF IsNone(sig._batt_soc) THEN NoCalc("TypeError")
    ELSE LET dest == get(o, "dest_soc", Q(1, 2)) IN
         IF RLt(RAbs(RSub(batt_soc, dest)), Q(2, 100)) THEN calc_batt_i(Zero)
         ELSE calc_grid_p(IF RLt(batt_soc, dest) THEN get(o, "power_in", Zero)
                          ELSE get(o, "power_out", Zero), None)

(* The calc_* call the task of mode m makes when it leaves position pc,    *)
(* with power the power an analysis step asks for.                         *)
mode_request(m, pc, o, power) ==
    CASE m = "p_inv"   -> calc_inv_p(get(o, "power", Zero), None, 0)
      [] m = "i_batt"  -> calc_batt_i(Zero)
      [] m = "soc"     -> IF pc = "soc1" THEN soc_request(o)
                          ELSE calc_grid_p(get(o, "power_in", Zero), None)
      [] m = "analyze" -> (* set_p: calc_grid_p(p) is calc_inv_p(-p_cons - p) *)
                          IF get(o, "use_grid", Zero) # Zero
                             /\ \E k \in 1..Len(sig.p_cons_) : IsNone(sig.p_cons_[k])
                          THEN NoCalc("TypeError")
                          ELSE calc_inv_p(IF get(o, "use_grid", Zero) # Zero
                                          THEN RSub(RNeg(p_cons), power) ELSE power,
                                          None, 0)

(* the position after the emission *)
next_pc(m, pc) ==
    CASE m = "soc"     -> IF pc = "soc1" THEN "soc2" ELSE "soc1"
      [] m = "analyze" -> "an_settle"
      [] OTHER         -> "settle"

(* the exception of modes whose run() fails before its first emission:     *)
(* off, idle and gridsetpoint declare run(self, task_status) but are       *)
(* called as run(); remote reads self._p_limits, which is never assigned.  *)
RunRaises(m) ==
    CASE m \in { "off", "idle", "gridsetpoint" } -> "TypeError"
      [] m = "remote" -> "AttributeError"
      [] OTHER -> ""

(* _run_mode_task without its guard *)
TwoTasks_unchecked == FALSE

(* `if self._mode_task is not None: raise RuntimeError` *)
TwoTasks == _mode_task # 0

(* InvMode_Analyze.use_grid and p_dis with the parameters o *)
use_grid(o) == get(o, "use_grid", Zero) # Zero
p_dis(o) == get(o, "p_dis", Zero)

(* InvMode_Analyze.run returns at once when p_dis has the wrong sign:      *)
(* (self.p_dis < 0) != self.use_grid                                       *)
AnalyzeWrongSign(o) == RLt(p_dis(o), Zero) # use_grid(o)

(* run() from the begin of step k to the next step that is not skipped:    *)
(* a skipped step 3 takes e_dis, a skipped step 4 e_chg, from the          *)
(* parameters o                                                            *)
RECURSIVE an_enter(_, _, _)
an_enter(a, k, o) ==
    IF k = 5 THEN [a EXCEPT !.step = 5, !.looped = FALSE]
    ELSE IF a.skip > 0
    THEN an_enter([a EXCEPT !.skip = @ - 1,
                            !.e_dis = IF k = 3 THEN get(o, "e_dis", Zero) ELSE @,
                            !.e_chg = IF k = 4 THEN get(o, "e_chg", Zero) ELSE @],
                  k + 1, o)
    ELSE [a EXCEPT !.step = k, !.looped = FALSE]

(* the position of a task that is in step k *)
an_pc(k) == IF k < 5 THEN "an_poll" ELSE IF k = 5 THEN "an_calc" ELSE "an_handoff"

(* the power of the step loops: p_dis when discharging, p_chg (not         *)
(* tracked: 0) when charging                                               *)
an_power(a, o) == IF a.step \in { 1, 3 } THEN p_dis(o) ELSE Zero

(* step 5 without the energy discharged while charging *)
an_loss_uncorrected(a) ==
    RSub(R(1), RDiv(a.e_dis, RAdd(RAdd(a.e_chg, a.e_chg_d), R(1))))

(* step 5: the loss factor *)
an_loss(a) ==
    RSub(R(1), RDiv(RAdd(a.e_dis, a.e_dis_c), RAdd(RAdd(a.e_chg, a.e_chg_d), R(1))))

(* step 5: the keys of inf beside the energies and the loss *)
an_inf(a) ==
    IF RLt(an_loss(a), Zero) THEN { "test" }
    ELSE IF a.skip > 0 THEN { "done", "error" }
    ELSE { "done" }

(* step 6: the mode the analysis hands off to, and its parameters *)
an_handoff(a, o) ==
    IF a.skip > 0 THEN [ mode |-> "p_off", data |-> NoData ]
    ELSE [ mode |-> IF use_grid(o) THEN "p_grid" ELSE "p_inv",
           data |-> [NoData EXCEPT !["power"] = Zero] ]

(* One emission by task s: calc, set_inv_ps, and the exit through the      *)
(* finally block of _run_mode_task when the calc call raised.              *)
Emit(s, m, pc, o, power, running) ==
    \E r \in { mode_request(m, pc, o, power) } :
    /\ calc_state(r)
    /\ set_inv_ps(s, r, o)
    /\ IF r.exc # "none"
       THEN /\ tasks' = [tasks EXCEPT ![s] = FreeTask]
            /\ _mode_task' = 0
            /\ _mode_task_stopped' = TRUE
            /\ crashed' = r.exc
       ELSE /\ tasks' = [tasks EXCEPT ![s] =
                            [ st |-> "run", mode |-> m, pc |-> next_pc(m, pc),
                              running |-> running,
                              an |-> [tasks[s].an EXCEPT !.looped = TRUE] ]]
            /\ _mode_task' = s
            /\ UNCHANGED << _mode_task_stopped, crashed >>

(* _run_mode_task from its start to the first suspension of run() *)
StartTask(s) ==
    /\ Alive
    /\ tasks[s].st = "spawned"
    /\ IF TwoTasks
       THEN (* RuntimeError, raised before the try block: no finally runs *)
            /\ tasks' = [tasks EXCEPT ![s] = FreeTask]
            /\ crashed' = "RuntimeError"
            /\ UNCHANGED << op, _mode_task, _mode_task_stopped, par, last_p,
                            dest_p, step, p_set, lastSet >>
       ELSE LET m == _mode
                o == update(op, cfg.modes[m])
            IN  /\ op' = o
                /\ IF RunRaises(m) # ""
                   THEN /\ tasks' = [tasks EXCEPT ![s] = FreeTask]
                        /\ _mode_task' = 0
                        /\ _mode_task_stopped' = TRUE
                        /\ crashed' = RunRaises(m)
                        /\ UNCHANGED << par, last_p, dest_p, step, p_set, lastSet >>
                   ELSE IF m = "analyze"
                   THEN IF AnalyzeWrongSign(o)
                        THEN /\ tasks' = [tasks EXCEPT ![s] = FreeTask]
                             /\ _mode_task' = 0
                             /\ _mode_task_stopped' = TRUE
                             /\ UNCHANGED << crashed, par, last_p, dest_p, step,
                                             p_set, lastSet >>
                        ELSE /\ \E a \in { an_enter([NoAn EXCEPT
                                                        !.skip = get(o, "skip", Zero)[1]],
                                                      0, o) } :
                                   /\ tasks' = [tasks EXCEPT ![s] =
                                                  [ st |-> "run", mode |-> m,
                                                    pc |-> an_pc(a.step),
                                                    running |-> FALSE, an |-> a ]]
                                   /\ par' = IF a.step = 0
                                             THEN [par EXCEPT !.top_off = TRUE]
                                             ELSE par
                             /\ _mode_task' = s
                             /\ UNCHANGED << _mode_task_stopped, crashed, last_p,
                                             dest_p, step, p_set, lastSet >>
                   ELSE /\ Emit(s, m, "start", o, Zero, FALSE)
                        /\ UNCHANGED par
    /\ UNCHANGED << bms_cap, call, env, settle, topbal, item, averages, ncalc, cfg, _mode, _change_mode_evt, pcRun, sig, i_pv_max, lastReq,
                    lastSwitch, res >>

(* the loop of run(): the settle loop of set_inv_ps ends (self.running =   *)
(* True) and the next request is computed and emitted                      *)
Cycle(s) ==
    /\ Alive
    /\ tasks[s].st = "run"
    /\ tasks[s].mode \in { "p_inv", "i_batt", "soc" }
    /\ Emit(s, tasks[s].mode, tasks[s].pc, op, Zero, TRUE)
    /\ UNCHANGED << bms_cap, call, env, settle, topbal, item, averages, ncalc, cfg, op, _mode, _change_mode_evt, pcRun, sig, par, i_pv_max,
                    lastReq, lastSwitch, res >>

(* InvMode_Analyze: a step loop polled the BMS and calls set_p(power) *)
AnalyzeSetP(s, power) ==
    /\ Alive
    /\ tasks[s].st = "run"
    /\ tasks[s].mode = "analyze"
    /\ tasks[s].pc = "an_poll"
    /\ Emit(s, "analyze", "an_poll", op, power, tasks[s].running)
    /\ UNCHANGED << bms_cap, call, env, settle, topbal, item, averages, ncalc, cfg, op, _mode, _change_mode_evt, pcRun, sig, par, i_pv_max,
                    lastReq, lastSwitch, res >>

(* InvMode_Analyze: the settle loop of set_inv_ps ends, the step loop      *)
(* polls the BMS again                                                     *)
AnalyzePoll(s) ==
    /\ Alive
    /\ tasks[s].st = "run"
    /\ tasks[s].mode = "analyze"
    /\ tasks[s].pc = "an_settle"
    /\ tasks' = [tasks EXCEPT ![s].pc = "an_poll", ![s].running = TRUE]
    /\ UNCHANGED << bms_cap, call, env, settle, topbal, item, averages, ncalc, cfg, op, _mode, _change_mode_evt, _mode_task, _mode_task_stopped,
                    pcRun, crashed, sig, par, i_pv_max, last_p, dest_p, step, p_set,
                    lastReq, lastSwitch, lastSet, res >>

(* InvMode_Analyze.get_e in the loops of steps 2 to 4: once e_dis is set,  *)
(* `e.dis_now = self.e_dis` assigns an attribute of the reply of the BMS.  *)
(* A reply that is a plain dict raises AttributeError; the step loops go   *)
(* on when the reply takes the attribute.                                  *)
AnalyzeGetE(s) ==
    /\ Alive
    /\ tasks[s].st = "run"
    /\ tasks[s].mode = "analyze"
    /\ tasks[s].pc = "an_poll"
    /\ tasks[s].an.step \in 2..4
    /\ ~IsNone(tasks[s].an.e_dis)
    /\ tasks' = [tasks EXCEPT ![s] = FreeTask]
    /\ _mode_task' = 0
    /\ _mode_task_stopped' = TRUE
    /\ crashed' = "AttributeError"
    /\ UNCHANGED << bms_cap, call, env, settle, topbal, item, averages, ncalc, cfg, op, _mode, _change_mode_evt, pcRun, sig, par,
                    i_pv_max, last_p, dest_p, step, p_set, lastReq, lastSwitch,
                    lastSet, res >>

(* InvMode_Analyze.run: the loop of a step ends after it has emitted; e is *)
(* what get_bms_work reports then.  Step 3 keeps e_dis and e_chg_d, step 4 *)
(* e_chg and e_dis_c, and run() goes on to the next step not skipped.      *)
AnalyzeStep(s, e) ==
    /\ Alive
    /\ tasks[s].st = "run"
    /\ tasks[s].mode = "analyze"
    /\ tasks[s].pc = "an_poll"
    /\ tasks[s].an.looped
    /\ \E a \in { tasks[s].an } :
       \E b \in { IF a.step = 3 THEN [a EXCEPT !.e_dis = e.dis, !.e_chg_d = e.chg]
                   ELSE IF a.step = 4 THEN [a EXCEPT !.e_chg = e.chg, !.e_dis_c = e.dis]
                   ELSE a } :
       \E c \in { an_enter(b, a.step + 1, op) } :
          tasks' = [tasks EXCEPT ![s].an = c, ![s].pc = an_pc(c.step)]
    /\ UNCHANGED << bms_cap, call, env, settle, topbal, item, averages, ncalc, cfg, op, _mode, _change_mode_evt, _mode_task,
                    _mode_task_stopped, pcRun, crashed, sig, par, i_pv_max, last_p,
                    dest_p, step, p_set, lastReq, lastSwitch, lastSet, res >>

(* InvMode_Analyze.run, step 5: the loss factor, and the capacity the BMS  *)
(* is given                                                                *)
AnalyzeFinish(s) ==
    /\ Alive
    /\ tasks[s].st = "run"
    /\ tasks[s].mode = "analyze"
    /\ tasks[s].pc = "an_calc"
    /\ \E a \in { tasks[s].an } :
       \E inf \in { an_inf(a) } :
          /\ bms_cap' = IF inf = { "done" }
                        THEN << a.e_dis, an_loss(a), TRUE >>
                        ELSE bms_cap
          /\ tasks' = [tasks EXCEPT ![s].pc = an_pc(6),
                                    ![s].an = [a EXCEPT !.step = 6, !.inf = inf,
                                                        !.programmed =
                                                            IF inf = { "done" }
                                                            THEN @ + 1 ELSE @,
                                                        !.skip = IF @ > 0 THEN @ - 1 ELSE @]]
    /\ UNCHANGED << call, env, settle, topbal, item, averages, ncalc, cfg, op, _mode, _change_mode_evt, _mode_task,
                    _mode_task_stopped, pcRun, crashed, sig, par, i_pv_max, last_p,
                    dest_p, step, p_set, lastReq, lastSwitch, lastSet, res >>

(* InvMode_Analyze.run, step 6: the hand-off by change_mode, and the       *)
(* return of run().  Once the task has emitted and settled, the analysis   *)
(* has taken far longer than the settling delay.                           *)
AnalyzeDone(s) ==
    /\ Alive
    /\ tasks[s].st = "run"
    /\ tasks[s].mode = "analyze"
    /\ tasks[s].pc = "an_handoff"
    /\ tasks[s].running => pcRun = "wait"
    /\ \E h \in { an_handoff(tasks[s].an, op) } :
       \E r \in { change_mode_result(h.mode) } :
          IF r = "ok"
          THEN /\ change_mode_effect(h.mode, h.data)
               /\ lastSwitch' = h.data
               /\ UNCHANGED crashed
          ELSE /\ crashed' = "DBusError"
               /\ UNCHANGED << _mode, _change_mode_evt, op, lastSwitch >>
    /\ tasks' = [tasks EXCEPT ![s] = FreeTask]
    /\ _mode_task' = 0
    /\ _mode_task_stopped' = TRUE
    /\ UNCHANGED << bms_cap, call, env, settle, topbal, item, averages, ncalc, cfg, pcRun, sig, par, i_pv_max, last_p, dest_p, step, p_set,
                    lastReq, lastSet, res >>

(* a cancelled task runs the finally block of _run_mode_task *)
Unwind(s) ==
    /\ Alive
    /\ tasks[s].st = "cancelled"
    /\ tasks' = [tasks EXCEPT ![s] = FreeTask]
    /\ _mode_task' = 0
    /\ _mode_task_stopped' = TRUE
    /\ UNCHANGED << bms_cap, call, env, settle, topbal, item, averages, ncalc, cfg, op, _mode, _change_mode_evt, pcRun, crashed, sig, par,
                    i_pv_max, last_p, dest_p, step, p_set, lastReq, lastSwitch,
                    lastSet, res >>

-----------------------------------------------------------------------------
(* InvControl.run and _start_mode_task.                                    *)

(* tg.start_soon(self._run_mode_task) *)
Spawn(t) ==
    LET s == CHOOSE x \in Slots : t[x].st = "free"
    IN  [t EXCEPT ![s] = [FreeTask EXCEPT !.st = "spawned"]]

(* _init_srv: the exports are set up and the first battery average exists *)
InitSrv ==
    /\ Alive
    /\ pcRun = "init"
    /\ pcRun' = "evt_wait"
    /\ _mode_task' = 0
    /\ _mode_task_stopped' = FALSE
    /\ IF \E k \in 1..n_phase : IsNone(sig.p_grid_[k]) \/ IsNone(sig.p_cons_[k])
       THEN crashed' = "TypeError" /\ UNCHANGED << last_p, dest_p >>
       ELSE /\ last_p' = RSub(RNeg(p_grid), p_cons)
            /\ dest_p' = RSub(RNeg(p_grid), p_cons)
            /\ UNCHANGED crashed
    /\ UNCHANGED << bms_cap, call, env, settle, topbal, item, averages, ncalc, cfg, op, _mode, _change_mode_evt, tasks, sig, par, i_pv_max,
                    step, p_set, lastReq, lastSwitch, lastSet, res >>

(* _init_srv returning without waiting for the first average *)
InitSrvDone_unwaited ==
    /\ Alive
    /\ pcRun = "evt_wait"
    /\ pcRun' = "wait"
    /\ UNCHANGED << bms_cap, call, env, settle, topbal, item, averages, ncalc, cfg, op, _mode,
                    _change_mode_evt, _mode_task, _mode_task_stopped, tasks, crashed,
                    sig, par, i_pv_max, last_p, dest_p, step, p_set, lastReq,
                    lastSwitch, lastSet, res >>

(* `await evt.wait()` of _init_srv returns: the first average exists *)
InitSrvDone ==
    /\ Alive
    /\ pcRun = "evt_wait"
    /\ averages.evt
    /\ pcRun' = "wait"
    /\ UNCHANGED << bms_cap, call, env, settle, topbal, item, averages, ncalc, cfg, op, _mode,
                    _change_mode_evt, _mode_task, _mode_task_stopped, tasks, crashed,
                    sig, par, i_pv_max, last_p, dest_p, step, p_set, lastReq,
                    lastSwitch, lastSet, res >>

(* _init_srv has started the averaging tasks *)
Started == pcRun \in { "evt_wait", "wait", "stopping", "sleep" }

(* at most this many times the stored maximum is lowered towards i_pv *)
MaxDecays == 2

(* one iteration of _i_batt_task, up to its sleep.  self.i_batt negates    *)
(* the reading, outside the try block.                                     *)
I_batt_task ==
    /\ Alive
    /\ Started
    /\ IF IsNone(sig._i_batt)
       THEN crashed' = "TypeError" /\ UNCHANGED averages
       ELSE /\ \E b \in { Append(Tail(averages.b_last), i_batt) } :
                 averages' = IF \E k \in 1..Len(b) : IsNone(b[k])
                             THEN [averages EXCEPT !.b_last = b, !.i_batt_avg = Zero]
                             ELSE [averages EXCEPT !.b_last = b, !.evt = TRUE,
                                                   !.i_batt_avg = RDiv(RSum(b), R(Len(b)))]
            /\ UNCHANGED crashed
    /\ UNCHANGED << bms_cap, call, env, settle, topbal, item, ncalc, cfg, op, _mode, _change_mode_evt,
                    _mode_task, _mode_task_stopped, pcRun, tasks, sig, par, i_pv_max,
                    last_p, dest_p, step, p_set, lastReq, lastSwitch, lastSet, res >>

(* one iteration of _avg_task: up to its sleep, or up to `continue` *)
Avg_task ==
    /\ Alive
    /\ Started
    /\ IF IsNone(sig._i_pv)
       THEN /\ averages' = [averages EXCEPT !.spin = TRUE]
            /\ UNCHANGED << i_pv_max, par >>
       ELSE IF RLt(i_pv_max, i_pv)
       THEN /\ i_pv_max' = i_pv
            /\ UNCHANGED << par, averages >>
       ELSE IF RLt(R(1000), i_pv_max) /\ RLt(i_pv, RMul(i_pv_max, par.pv_margin))
       THEN /\ par' = [par EXCEPT !.pv_margin = RDiv(i_pv, i_pv_max)]
            /\ UNCHANGED << i_pv_max, averages >>
       ELSE /\ i_pv = i_pv_max \/ averages.decays < MaxDecays
            /\ i_pv_max' = RAdd(i_pv_max, RDiv(RSub(i_pv, i_pv_max), R(20)))
            /\ averages' = IF i_pv = i_pv_max THEN averages
                           ELSE [averages EXCEPT !.decays = @ + 1]
            /\ UNCHANGED par
    /\ UNCHANGED << bms_cap, call, env, settle, topbal, item, ncalc, cfg, op, _mode, _change_mode_evt,
                    _mode_task, _mode_task_stopped, pcRun, tasks, crashed, sig,
                    last_p, dest_p, step, p_set, lastReq, lastSwitch, lastSet, res >>

(* the run loop: the event is set; drop it and call _start_mode_task up    *)
(* to its first suspension                                                 *)
RunWake ==
    /\ Alive
    /\ pcRun = "wait"
    /\ _change_mode_evt = "set"
    /\ _change_mode_evt' = "None"
    /\ IF _mode_task # 0
       THEN /\ tasks' = [tasks EXCEPT ![_mode_task].st = "cancelled"]
            /\ pcRun' = "stopping"
       ELSE /\ tasks' = Spawn(tasks)
            /\ pcRun' = "sleep"
    /\ UNCHANGED << bms_cap, call, env, settle, topbal, item, averages, ncalc, cfg, op, _mode, _mode_task, _mode_task_stopped, crashed, sig, par,
                    i_pv_max, last_p, dest_p, step, p_set, lastReq, lastSwitch,
                    lastSet, res >>

(* _start_mode_task: _mode_task_stopped.wait() returns *)
RunStopped ==
    /\ Alive
    /\ pcRun = "stopping"
    /\ _mode_task_stopped
    /\ _mode_task_stopped' = FALSE
    /\ tasks' = Spawn(tasks)
    /\ pcRun' = "sleep"
    /\ UNCHANGED << bms_cap, call, env, settle, topbal, item, averages, ncalc, cfg, op, _mode, _change_mode_evt, _mode_task, crashed, sig, par,
                    i_pv_max, last_p, dest_p, step, p_set, lastReq, lastSwitch,
                    lastSet, res >>

(* anyio.sleep(30) returns; every task that was ready to run has run *)
SleepDone ==
    /\ Alive
    /\ pcRun = "sleep"
    /\ \A s \in Slots : tasks[s].st \notin { "spawned", "cancelled" }
    /\ _change_mode_evt' = "unset"
    /\ pcRun' = "wait"
    /\ UNCHANGED << bms_cap, call, env, settle, topbal, item, averages, ncalc, cfg, op, _mode, _mode_task, _mode_task_stopped, tasks, crashed,
                    sig, par, i_pv_max, last_p, dest_p, step, p_set, lastReq,
                    lastSwitch, lastSet, res >>

(* the PV current signal is updated or becomes invalid *)
Telemetry(v) ==
    /\ Alive
    /\ pcRun # "decide"
    /\ v # sig._i_pv
    /\ sig' = [sig EXCEPT !._i_pv = v]
    /\ UNCHANGED << bms_cap, call, env, settle, topbal, item, averages, ncalc, cfg, op, _mode, _change_mode_evt, _mode_task, _mode_task_stopped,
                    pcRun, tasks, crashed, par, i_pv_max, last_p, dest_p, step, p_set,
                    lastReq, lastSwitch, lastSet, res >>

-----------------------------------------------------------------------------
(* The controller: InvControl(bus, cfg) constructed, run() entered.        *)

Init ==
    /\ env \in { e.name : e \in Envs }
    /\ cfg \in Env.cfgs
    /\ op \in { [NoData EXCEPT !["fake"] = f] : f \in Env.fakes }
    /\ _mode = cfg.default
    /\ _change_mode_evt = "set"
    /\ _mode_task = 0
    /\ _mode_task_stopped = FALSE
    /\ pcRun = "init"
    /\ tasks = [s \in Slots |-> FreeTask]
    /\ crashed = ""
    /\ sig = TestSig
    /\ par = TestPar
    /\ i_pv_max = Zero
    /\ last_p = Zero
    /\ dest_p = Zero
    /\ step = 0
    /\ p_set = [k \in 1..TestSig.n_phase |-> Zero]
    /\ lastReq = NoReq
    /\ lastSwitch = NoSwitch
    /\ lastSet = NoSet
    /\ res = NoCalc("none")
    /\ ncalc = 0
    /\ call = NoCall
    /\ bms_cap = << >>
    /\ item = NoItem
    /\ averages = NoAvg
    /\ settle = NoSettle
    /\ topbal = NoTop

Next ==
    \/ \E mode \in Env.modes, data \in Env.data : SetMode(mode, data)
    \/ \E param \in Env.params : SetModeParam(param, ParamValue(param))
    \/ InitSrv
    \/ InitSrvDone
    \/ I_batt_task
    \/ Avg_task
    \/ RunWake
    \/ RunStopped
    \/ SleepDone
    \/ \E s \in Slots : StartTask(s)
    \/ \E s \in Slots : Cycle(s)
    \/ \E s \in Slots : AnalyzeSetP(s, an_power(tasks[s].an, op))
    \/ \E s \in Slots : AnalyzePoll(s)
    \/ \E s \in Slots : AnalyzeGetE(s)
    \/ \E s \in Slots, e \in Env.work : AnalyzeStep(s, e)
    \/ \E s \in Slots : AnalyzeFinish(s)
    \/ \E s \in Slots : AnalyzeDone(s)
    \/ \E s \in Slots : Unwind(s)
    \/ \E v \in Env.pv : Telemetry(v)

Spec == Init /\ [][Next]_vars

(* ---- the averaging tasks and the start of the first mode task ---------- *)

(* the battery current changes *)
TelemetryBatt(v) ==
    /\ Alive
    /\ v # sig._i_batt
    /\ sig' = [sig EXCEPT !._i_batt = v]
    /\ UNCHANGED << bms_cap, call, env, settle, topbal, item, averages, ncalc, cfg, op, _mode,
                    _change_mode_evt, _mode_task, _mode_task_stopped, pcRun, tasks,
                    crashed, par, i_pv_max, last_p, dest_p, step, p_set, lastReq,
                    lastSwitch, lastSet, res >>

InitAvg ==
    /\ env = AvgEnv.name
    /\ cfg \in AvgEnv.cfgs
    /\ op = NoData
    /\ _mode = cfg.default
    /\ _change_mode_evt = "set"
    /\ _mode_task = 0
    /\ _mode_task_stopped = FALSE
    /\ pcRun = "init"
    /\ tasks = [s \in Slots |-> FreeTask]
    /\ crashed = ""
    /\ sig = TestSig
    /\ par = TestPar
    /\ i_pv_max = Zero
    /\ last_p = Zero
    /\ dest_p = Zero
    /\ step = 0
    /\ p_set = [k \in 1..TestSig.n_phase |-> Zero]
    /\ lastReq = NoReq
    /\ lastSwitch = NoSwitch
    /\ lastSet = NoSet
    /\ res = NoCalc("none")
    /\ ncalc = 0
    /\ call = NoCall
    /\ bms_cap = << >>
    /\ item = NoItem
    /\ averages = NoAvg
    /\ settle = NoSettle
    /\ topbal = NoTop

NextAvg ==
    \/ InitSrv
    \/ InitSrvDone
    \/ I_batt_task
    \/ Avg_task
    \/ RunWake
    \/ \E v \in AvgEnv.pv : Telemetry(v)
    \/ \E v \in BattReadings : TelemetryBatt(v)

SpecAvg == InitAvg /\ [][NextAvg]_vars

-----------------------------------------------------------------------------
(* The limit calculator on its own: calc_inv_p called on a bench whose     *)
(* signals are drawn from a bounded set.                                   *)

(* at most this many decide calls in a row *)
MaxCalls == 2
MaxPhases == 4

(* the readings of the AC consumption, per phase *)
ConsReadings == { R(0), R(50), R(100), R(200) }

phase_sig(cons, crit) ==
    [TestSig EXCEPT !.n_phase = Len(cons), !.p_cons_ = cons, !.p_crit_ = crit,
                    !.p_grid_ = [k \in 1..Len(cons) |-> Zero],
                    !.p_run_ = [k \in 1..Len(cons) |-> Zero]]


(* requested AC power, and the excess cap (None: no excess given) *)
DecideRequests == { R(0), R(400), R(500), R(2000), R(5000), R(-1000), R(-5000) }

DecideExcess == { None, R(100) }

(* the bench: PV current, discharge limit, the BMS permissions, the SoC *)
DecideSigs ==
    { [TestSig EXCEPT !._i_pv = pv, !._ib_dis = dis, !._ok_chg = okc,
                      !._ok_dis = okd, !._batt_soc = soc] :
        pv \in { R(0), R(200) }, dis \in { R(40), R(100) },
        okc \in BOOLEAN, okd \in BOOLEAN, soc \in { R(50), R(95) } }

(* the benches of test_basic on one phase: i_pv, ib_max (and i_pv_max) *)
ScenarioSigs ==
    { [TestSig EXCEPT !._i_pv = pv, !._ib_dis = dis] :
        pv \in { R(0), R(50), R(55) }, dis \in { R(40), R(100) } }

ScenarioRequests ==
    { R(0), R(100), R(-100), R(125), R(1000), R(2000), R(-1000), R(-1200) }

(* the benches on several phases: a consumption reading on phase 1, a      *)
(* reading of the loads on the inverter output on the last phase           *)
PhaseSigs ==
    { phase_sig([k \in 1..n |-> IF k = 1 THEN c ELSE Zero],
                [k \in 1..n |-> IF k = n THEN x ELSE Zero]) :
        n \in 1..MaxPhases, c \in ConsReadings, x \in { R(0), R(20) } }

(* the calls made on a bench: request, excess, phase (0: none given) *)
DecideCalls ==
    CASE env = "decide" ->
            [ p : DecideRequests, excess : DecideExcess, phase : { 0 } ]
      [] env = "scenario" ->
            [ p : ScenarioRequests, excess : { None }, phase : { 0 } ]
      [] env = "phases" ->
            [ p : { R(0), R(100), R(-100), R(400), R(1000) }, excess : { None },
              phase : { 0, 1, 2 } ]

Decide(p, excess, phase) ==
    /\ pcRun = "decide"
    /\ ncalc < MaxCalls
    /\ ncalc' = ncalc + 1
    /\ \E r \in { calc_inv_p(p, excess, phase) } :
          /\ res' = r
          /\ calc_state(r)
    /\ UNCHANGED << bms_cap, call, env, settle, topbal, item, averages, cfg, op, _mode, _change_mode_evt, _mode_task,
                    _mode_task_stopped, pcRun, tasks, crashed, sig, par, i_pv_max,
                    p_set, lastReq, lastSwitch, lastSet >>

InitDecide ==
    /\ cfg = [ default |-> "off", modes |-> NoCfgModes ]
    /\ op = NoData
    /\ _mode = "off"
    /\ _change_mode_evt = "set"
    /\ _mode_task = 0
    /\ _mode_task_stopped = FALSE
    /\ pcRun = "decide"
    /\ tasks = [s \in Slots |-> FreeTask]
    /\ crashed = ""
    /\ \/ /\ env = "decide"
          /\ sig \in DecideSigs
          /\ par = TestPar
          /\ i_pv_max \in { Zero, sig._i_pv }
       \/ /\ env = "scenario"
          /\ sig \in ScenarioSigs
          /\ par = TestPar
          /\ i_pv_max \in { R(0), R(50), R(100) }
       \/ /\ env = "phases"
          /\ sig \in PhaseSigs
          /\ par \in { [TestPar EXCEPT !.p_per_phase = m] : m \in { R(1000), R(46) } }
          /\ i_pv_max = Zero
    /\ last_p = Zero
    /\ dest_p = Zero
    /\ step = 0
    /\ p_set = [k \in 1..TestSig.n_phase |-> Zero]
    /\ lastReq = NoReq
    /\ lastSwitch = NoSwitch
    /\ lastSet = NoSet
    /\ res = NoCalc("none")
    /\ ncalc = 0
    /\ call = NoCall
    /\ bms_cap = << >>
    /\ item = NoItem
    /\ averages = NoAvg
    /\ settle = NoSettle
    /\ topbal = NoTop

NextDecide == \E c \in DecideCalls : Decide(c.p, c.excess, c.phase)

SpecDecide == InitDecide /\ [][NextDecide]_vars

(* ---- the damper under a constant request -------------------------------- *)

(* the calls are counted up to this number *)
MaxDamp == 8

(* the value of -p_grid-p_cons when the controller starts *)
DampStarts == { R(0), R(300), R(-300) }

DampRequests == { R(0), R(400), R(1000), R(-1000), R(-5000) }

DampSigs == { [TestSig EXCEPT !._batt_soc = soc] : soc \in { R(5), R(50), R(95) } }

(* a mode task's loop calling calc_inv_p with the request of its first call *)
Damp(p) ==
    /\ pcRun = "decide"
    /\ env = "damper"
    /\ ncalc = 0 \/ res.init = p
    /\ ncalc' = IF ncalc < MaxDamp THEN ncalc + 1 ELSE ncalc
    /\ \E r \in { calc_inv_p(p, None, 0) } :
          /\ res' = r
          /\ calc_state(r)
    /\ UNCHANGED << bms_cap, call, env, settle, topbal, item, averages, cfg, op, _mode, _change_mode_evt, _mode_task,
                    _mode_task_stopped, pcRun, tasks, crashed, sig, par, i_pv_max,
                    p_set, lastReq, lastSwitch, lastSet >>

InitDamp ==
    /\ cfg = [ default |-> "off", modes |-> NoCfgModes ]
    /\ op = NoData
    /\ _mode = "off"
    /\ _change_mode_evt = "set"
    /\ _mode_task = 0
    /\ _mode_task_stopped = FALSE
    /\ pcRun = "decide"
    /\ tasks = [s \in Slots |-> FreeTask]
    /\ crashed = ""
    /\ env = "damper"
    /\ sig \in DampSigs
    /\ par = TestPar
    /\ i_pv_max = Zero
    /\ last_p \in DampStarts
    /\ dest_p = last_p
    /\ step = 0
    /\ p_set = [k \in 1..TestSig.n_phase |-> Zero]
    /\ lastReq = NoReq
    /\ lastSwitch = NoSwitch
    /\ lastSet = NoSet
    /\ res = NoCalc("none")
    /\ ncalc = 0
    /\ call = NoCall
    /\ bms_cap = << >>
    /\ item = NoItem
    /\ averages = NoAvg
    /\ settle = NoSettle
    /\ topbal = NoTop

NextDamp == \E p \in DampRequests : Damp(p)

SpecDamp == InitDamp /\ [][NextDamp]_vars

(* ---- the wait after an emission ----------------------------------------- *)

(* at most this many emissions of the mode task *)
MaxEmits == 2

(* `while n<10` *)
SettlePolls == 10

(* InvControl.p_inv: the AC power of the inverter *)
p_inv == RSub(RNeg(p_cons), p_grid)

(* the requests of a mode task on two inverters, and the readings of the   *)
(* grid meter                                                              *)
SettleRequests == { << R(-3000), R(-500) >>, << R(500), R(500) >> }

SettleReadings == { R(0), R(50), R(500) }

(* abs(pp-p) < intf.p_step *)
settle_small(pp, p) ==
    CHOOSE c \in { RLt(a, par.p_step) : a \in { RAbs(d) : d \in { RSub(pp, p) } } } : TRUE

(* a loop body that stops at the first sample near its predecessor *)
settle_poll_first(st, pp) ==
    CHOOSE r \in
      { IF small
        THEN [st EXCEPT !.polls = @ + 1, !.pp = pp, !.pc = "idle", !.running = TRUE]
        ELSE [st EXCEPT !.polls = @ + 1, !.nt = FALSE, !.prev = st.p, !.p = pp, !.pp = pp,
                        !.n = @ + 1,
                        !.pc = IF st.n + 1 < SettlePolls THEN "sleep" ELSE "idle",
                        !.running = @ \/ ~(st.n + 1 < SettlePolls)] :
        small \in { settle_small(pp, st.p) } } : TRUE

(* the body of `while n<10` after its trigger() returned, pp = intf.p_inv, *)
(* up to the next trigger() or to self.running = True                      *)
settle_poll(st, pp) ==
    CHOOSE r \in
      { IF small /\ st.nt
        THEN [st EXCEPT !.polls = @ + 1, !.pp = pp, !.pc = "idle", !.running = TRUE]
        ELSE [st EXCEPT !.polls = @ + 1, !.nt = small, !.prev = st.p, !.p = pp, !.pp = pp,
                        !.n = @ + 1,
                        !.pc = IF st.n + 1 < SettlePolls THEN "sleep" ELSE "idle",
                        !.running = @ \/ ~(st.n + 1 < SettlePolls)] :
        small \in { settle_small(pp, st.p) } } : TRUE

(* a trigger() returned: the one before the loop, or one of the loop *)
settle_wake(st, pp) ==
    IF st.initial THEN [st EXCEPT !.initial = FALSE, !.pc = "sleep"]
    ELSE settle_poll(st, pp)

(* InvModeBase.set_inv_ps(req) up to the sleep of its first trigger() *)
SettleEmit(req) ==
    /\ pcRun = "settle"
    /\ settle.pc = "idle"
    /\ settle.emits < MaxEmits
    /\ \E r \in { inv_ps_limited(req, settle.min, settle.max, settle.running) } :
          /\ p_set' = [k \in 1..n_phase |-> RNeg(r.ps[k])]
          /\ settle' = [settle EXCEPT !.pc = "sleep", !.initial = TRUE, !.n = 0,
                                      !.nt = FALSE, !.p = p_inv, !.pp = None, !.prev = None,
                                      !.polls = 0, !.seen = FALSE, !.emits = @ + 1,
                                      !.req = req, !.ps = r.ps,
                                      !.min = List(r.ps_min), !.max = List(r.ps_max)]
    /\ UNCHANGED << bms_cap, call, env, topbal, item, averages, ncalc, cfg, op, _mode,
                    _change_mode_evt, _mode_task, _mode_task_stopped, pcRun, tasks,
                    crashed, sig, par, i_pv_max, last_p, dest_p, step, lastReq,
                    lastSwitch, lastSet, res >>

(* InvControl.trigger: anyio.sleep(sleep) is over, the wait for            *)
(* self._trigger begins                                                    *)
TriggerSlept ==
    /\ pcRun = "settle"
    /\ settle.pc = "sleep"
    /\ settle' = [settle EXCEPT !.pc = "wait"]
    /\ UNCHANGED << bms_cap, call, env, topbal, item, averages, ncalc, cfg, op, _mode,
                    _change_mode_evt, _mode_task, _mode_task_stopped, pcRun, tasks,
                    crashed, sig, par, i_pv_max, last_p, dest_p, step, p_set, lastReq,
                    lastSwitch, lastSet, res >>

(* InvControl.trigger: move_on_after(5) ends the wait *)
TriggerTimeout ==
    /\ pcRun = "settle"
    /\ settle.pc = "wait"
    /\ \E pp \in { p_inv } : \E t \in { settle_wake(settle, pp) } : settle' = t
    /\ UNCHANGED << bms_cap, call, env, topbal, item, averages, ncalc, cfg, op, _mode,
                    _change_mode_evt, _mode_task, _mode_task_stopped, pcRun, tasks,
                    crashed, sig, par, i_pv_max, last_p, dest_p, step, p_set, lastReq,
                    lastSwitch, lastSet, res >>

(* the inverter's AC power changes, the grid meter reads v:                *)
(* _trigger_step sets the event and a waiting trigger() returns            *)
P_inv_update(v) ==
    /\ pcRun = "settle"
    /\ sig' = [sig EXCEPT !.p_grid_ = [k \in 1..n_phase |-> IF k = 1 THEN v ELSE Zero]]
    /\ \E pp \in { RSub(RNeg(p_cons), v) } :
          \E t \in { IF settle.pc = "wait"
                     THEN settle_wake([settle EXCEPT !.seen = TRUE], pp)
                     ELSE settle } : settle' = t
    /\ UNCHANGED << bms_cap, call, env, topbal, item, averages, ncalc, cfg, op, _mode,
                    _change_mode_evt, _mode_task, _mode_task_stopped, pcRun, tasks,
                    crashed, par, i_pv_max, last_p, dest_p, step, p_set, lastReq,
                    lastSwitch, lastSet, res >>

InitSettle ==
    /\ cfg = [ default |-> "off", modes |-> NoCfgModes ]
    /\ op = NoData
    /\ _mode = "off"
    /\ _change_mode_evt = "set"
    /\ _mode_task = 0
    /\ _mode_task_stopped = FALSE
    /\ pcRun = "settle"
    /\ tasks = [s \in Slots |-> FreeTask]
    /\ crashed = ""
    /\ env = "settle"
    /\ sig \in { [phase_sig(<< Zero, Zero >>, << Zero, Zero >>)
                     EXCEPT !.p_run_ = run] :
                  run \in { << R(-1000), R(-1000) >>, << R(0), R(0) >> } }
    /\ par = TestPar
    /\ i_pv_max = Zero
    /\ last_p = Zero
    /\ dest_p = Zero
    /\ step = 0
    /\ p_set = [k \in 1..2 |-> Zero]
    /\ lastReq = NoReq
    /\ lastSwitch = NoSwitch
    /\ lastSet = NoSet
    /\ res = NoCalc("none")
    /\ ncalc = 0
    /\ call = NoCall
    /\ bms_cap = << >>
    /\ item = NoItem
    /\ averages = NoAvg
    /\ settle = NoSettle
    /\ topbal = NoTop

NextSettle ==
    \/ \E req \in SettleRequests : SettleEmit(req)
    \/ TriggerSlept
    \/ TriggerTimeout
    \/ \E v \in SettleReadings : P_inv_update(v)

(* anyio.sleep(sleep) returns, and move_on_after(5) bounds the wait for    *)
(* the event: no trigger() waits for ever                                  *)
SpecSettle ==
    InitSettle /\ [][NextSettle]_vars /\ WF_vars(TriggerSlept) /\ []<>(settle.pc # "wait")

(* ---- top balancing ------------------------------------------------------ *)

(* set_p is counted up to this number of calls, the hold lasts this many *)
MaxTopEmits == 8
MaxHold == 2

(* get_bms_config(): cell.u.lim.max, cell.u.ext.max and cell.balance.d, mV *)
TopCfg == [ lim_max |-> R(3500), ext_max |-> R(3600), d |-> R(10) ]

(* get_bms_voltages()[0]: min_cell and max_cell, mV *)
TopVoltages ==
    { v \in [ min : { R(3500), R(3560), R(3580) }, max : { R(3560), R(3580), R(3620) } ] :
        RLe(v.min, v.max) }

top_umin == RDiv(RAdd(TopCfg.lim_max, TopCfg.ext_max), R(2))

top_dest_d == RMul(TopCfg.d, R(3))

(* the new value of n after a poll that read vt *)
top_n(n, vt) ==
    IF RLt(vt.min, top_umin) THEN 0
    ELSE IF RLt(RSub(vt.max, vt.min), top_dest_d) THEN 0
    ELSE n + 1

(* balance() is entered *)
TopStart ==
    /\ pcRun = "top"
    /\ topbal.pc = "idle"
    /\ topbal' = [topbal EXCEPT !.pc = "poll"]
    /\ par' = [par EXCEPT !.top_off = TRUE]
    /\ UNCHANGED << bms_cap, call, env, settle, item, averages, ncalc, cfg, op, _mode,
                    _change_mode_evt, _mode_task, _mode_task_stopped, pcRun, tasks,
                    crashed, sig, i_pv_max, last_p, dest_p, step, p_set, lastReq,
                    lastSwitch, lastSet, res >>

(* one pass of the first loop of balance(): up to set_p, or to the break *)
TopPoll(vt) ==
    /\ pcRun = "top"
    /\ topbal.pc = "poll"
    /\ \E n \in { top_n(topbal.n, vt) } :
          topbal' = [topbal EXCEPT
                       !.n = n, !.min = vt.min, !.max = vt.max,
                       !.calm = IF RLe(top_umin, vt.min)
                                   /\ RLt(RSub(vt.max, vt.min), top_dest_d)
                                THEN IF @ < 3 THEN @ + 1 ELSE @
                                ELSE 0,
                       !.pc = IF n > 3 THEN "hold" ELSE "poll",
                       !.emits = IF n > 3 \/ @ = MaxTopEmits THEN @ ELSE @ + 1]
    /\ UNCHANGED << bms_cap, call, env, settle, item, averages, ncalc, cfg, op, _mode,
                    _change_mode_evt, _mode_task, _mode_task_stopped, pcRun, tasks,
                    crashed, sig, par, i_pv_max, last_p, dest_p, step, p_set, lastReq,
                    lastSwitch, lastSet, res >>

(* one pass of the second loop: set_p, and the timer has not run out *)
TopHold ==
    /\ pcRun = "top"
    /\ topbal.pc = "hold"
    /\ topbal.held < MaxHold
    /\ topbal' = [topbal EXCEPT !.held = @ + 1,
                                !.emits = IF @ = MaxTopEmits THEN @ ELSE @ + 1]
    /\ UNCHANGED << bms_cap, call, env, settle, item, averages, ncalc, cfg, op, _mode,
                    _change_mode_evt, _mode_task, _mode_task_stopped, pcRun, tasks,
                    crashed, sig, par, i_pv_max, last_p, dest_p, step, p_set, lastReq,
                    lastSwitch, lastSet, res >>

(* the last pass of the second loop: set_p, t2 < 0, and the finally clause *)
TopDone ==
    /\ pcRun = "top"
    /\ topbal.pc = "hold"
    /\ topbal' = [topbal EXCEPT !.pc = "done",
                                !.emits = IF @ = MaxTopEmits THEN @ ELSE @ + 1]
    /\ par' = [par EXCEPT !.top_off = TRUE]
    /\ UNCHANGED << bms_cap, call, env, settle, item, averages, ncalc, cfg, op, _mode,
                    _change_mode_evt, _mode_task, _mode_task_stopped, pcRun, tasks,
                    crashed, sig, i_pv_max, last_p, dest_p, step, p_set, lastReq,
                    lastSwitch, lastSet, res >>

InitTop ==
    /\ cfg = [ default |-> "off", modes |-> NoCfgModes ]
    /\ op = NoData
    /\ _mode = "analyze"
    /\ _change_mode_evt = "set"
    /\ _mode_task = 0
    /\ _mode_task_stopped = FALSE
    /\ pcRun = "top"
    /\ tasks = [s \in Slots |-> FreeTask]
    /\ crashed = ""
    /\ env = "top"
    /\ sig = TestSig
    /\ par = TestPar
    /\ i_pv_max = Zero
    /\ last_p = Zero
    /\ dest_p = Zero
    /\ step = 0
    /\ p_set = [k \in 1..TestSig.n_phase |-> Zero]
    /\ lastReq = NoReq
    /\ lastSwitch = NoSwitch
    /\ lastSet = NoSet
    /\ res = NoCalc("none")
    /\ ncalc = 0
    /\ call = NoCall
    /\ bms_cap = << >>
    /\ item = NoItem
    /\ averages = NoAvg
    /\ settle = NoSettle
    /\ topbal = NoTop

NextTop == TopStart \/ (\E vt \in TopVoltages : TopPoll(vt)) \/ TopHold \/ TopDone

SpecTop == InitTop /\ [][NextTop]_vars

(* ---- the helper functions, called on their own -------------------------- *)
(* balance, the current/power conversions and to_phases are functions of   *)
(* their arguments and of the cached signals and parameters.  The initial  *)
(* state draws one function and its arguments, the actions call it;        *)
(* call.out is the sequence of the values returned so far.                 *)

MaxLen == 3
MaxApply == 2

RECURSIVE Lists(_, _)
Lists(S, n) ==
    IF n = 0 THEN { << >> }
    ELSE Lists(S, n - 1) \cup
         { Append(l, x) : l \in { m \in Lists(S, n - 1) : Len(m) = n - 1 }, x \in S }

BalanceValues == { R(-2), R(-1), R(0), R(1), R(3) }

(* min / max: left out, one number for all entries, or one per entry;     *)
(* min <= 0 <= max, as to_phases passes -p_per_phase and p_per_phase       *)
BalanceMins(n) == { NoLimit, Num(R(-1)), Num(R(-2)), List([k \in 1..n |-> R(0 - k)]) }
BalanceMaxs(n) == { NoLimit, Num(R(1)), Num(R(2)), List([k \in 1..n |-> R(k)]) }

ConvertPowers == { R(-1000), R(-125), R(-1), R(1), R(100), R(750) }

PhaseRequests == { R(0), R(100), R(-100), R(400), R(-400), R(5000) }

(* the two powers small_p_step compares *)
StepPowers ==
    { R(-600), R(-300), R(-100), R(-1), R(0), R(1), R(50), R(99), R(100), R(140),
      R(400), R(500), R(610) }

Balance ==
    /\ call.fn = "balance"
    /\ Len(call.out) < MaxApply
    /\ \E a \in { IF call.out = << >> THEN call.a ELSE call.out[Len(call.out)] } :
          call' = [call EXCEPT !.out = Append(@, balance(a, call.min, call.max))]
    /\ UNCHANGED << bms_cap, ctlVars, sig, par, i_pv_max, last_p, dest_p, step, p_set,
                    lastReq, lastSwitch, lastSet, res, ncalc, env, settle, topbal, item, averages >>

I_from_p ==
    /\ call.fn = "i_from_p"
    /\ call.out = << >>
    /\ call' = [call EXCEPT !.out = << i_from_p(call.p, call.rev) >>]
    /\ UNCHANGED << bms_cap, ctlVars, sig, par, i_pv_max, last_p, dest_p, step, p_set,
                    lastReq, lastSwitch, lastSet, res, ncalc, env, settle, topbal, item, averages >>

P_from_i ==
    /\ call.fn = "i_from_p"
    /\ Len(call.out) = 1
    /\ call' = [call EXCEPT !.out = Append(@, p_from_i(@[1], ~call.rev))]
    /\ UNCHANGED << bms_cap, ctlVars, sig, par, i_pv_max, last_p, dest_p, step, p_set,
                    lastReq, lastSwitch, lastSet, res, ncalc, env, settle, topbal, item, averages >>

(* small_p_step(p, q) and small_p_step(q, p), q = call.a[1] *)
Small_p_step ==
    /\ call.fn = "small_p_step"
    /\ call.out = << >>
    /\ call' = [call EXCEPT !.out = << small_p_step(call.p, call.a[1]),
                                       small_p_step(call.a[1], call.p) >>]
    /\ UNCHANGED << bms_cap, ctlVars, sig, par, i_pv_max, last_p, dest_p, step, p_set,
                    lastReq, lastSwitch, lastSet, res, ncalc, env, settle, topbal, item, averages >>

(* the requests, setpoints and readings of two inverters *)
InvRequests == { << R(a), R(b) >> : a, b \in { -3000, -500, 0, 500, 3000 } }
InvSetpoints == { << R(a), R(b) >> : a, b \in { -3000, 0, 3000 } }
InvReadings == { << R(a), R(b) >> : a, b \in { -1000, 0, 1000 } }

(* InvModeBase.set_inv_ps(call.a) of a mode whose ps_min, ps_max and       *)
(* running are call.min, call.max and call.rev; call.out is the vector     *)
(* passed on to InvControl.set_inv_ps and the limits the mode keeps        *)
Mode_set_inv_ps ==
    /\ call.fn = "set_inv_ps"
    /\ call.out = << >>
    /\ \E r \in { inv_ps_limited(call.a, call.min, call.max, call.rev) } :
          /\ call' = [call EXCEPT !.out = << r.ps, r.ps_min, r.ps_max >>,
                                  !.min = List(r.ps_min), !.max = List(r.ps_max),
                                  !.rev = TRUE]
          /\ p_set' = [k \in 1..n_phase |-> RNeg(r.ps[k])]
    /\ UNCHANGED << bms_cap, ctlVars, sig, par, i_pv_max, last_p, dest_p, step,
                    lastReq, lastSwitch, lastSet, res, ncalc, env, settle, topbal, item, averages >>

To_phases ==
    /\ call.fn = "to_phases"
    /\ call.out = << >>
    /\ call' = [call EXCEPT !.out = << to_phases(call.p) >>]
    /\ UNCHANGED << bms_cap, ctlVars, sig, par, i_pv_max, last_p, dest_p, step, p_set,
                    lastReq, lastSwitch, lastSet, res, ncalc, env, settle, topbal, item, averages >>

InitCall ==
    /\ env = "call"
    /\ bms_cap = << >>
    /\ item = NoItem
    /\ averages = NoAvg
    /\ settle = NoSettle
    /\ topbal = NoTop
    /\ cfg = [ default |-> "off", modes |-> NoCfgModes ]
    /\ op = NoData
    /\ _mode = "off"
    /\ _change_mode_evt = "set"
    /\ _mode_task = 0
    /\ _mode_task_stopped = FALSE
    /\ pcRun = "call"
    /\ tasks = [s \in Slots |-> FreeTask]
    /\ crashed = ""
    /\ i_pv_max = Zero
    /\ last_p = Zero
    /\ dest_p = Zero
    /\ step = 0
    /\ lastReq = NoReq
    /\ lastSwitch = NoSwitch
    /\ lastSet = NoSet
    /\ res = NoCalc("none")
    /\ ncalc = 0
    /\ \/ /\ sig \in { [phase_sig(<< Zero, Zero >>, << Zero, Zero >>)
                           EXCEPT !.p_run_ = run] : run \in InvReadings }
          /\ par = TestPar
          /\ p_set \in InvSetpoints
          /\ call \in { [NoCall EXCEPT !.fn = "set_inv_ps", !.a = a, !.rev = running,
                                       !.min = l[1], !.max = l[2]] :
                          a \in InvRequests, running \in BOOLEAN,
                          l \in { << NoLimit, NoLimit >>,
                                  << List(<< R(-1000), NoMin >>),
                                     List(<< R(1000), NoMax >>) >> } }
       \/ /\ sig = TestSig
          /\ par = TestPar
          /\ p_set = [k \in 1..n_phase |-> Zero]
          /\ \E a \in Lists(BalanceValues, MaxLen) :
                call \in { [NoCall EXCEPT !.fn = "balance", !.a = a, !.min = mn, !.max = mx] :
                             mn \in BalanceMins(Len(a)), mx \in BalanceMaxs(Len(a)) }
       \/ /\ sig \in { [TestSig EXCEPT !._u_dc = u] : u \in { R(48), R(100) } }
          /\ par \in { [TestPar EXCEPT !.inv_eff = e] : e \in { Q(1, 4), Q(9, 10) } }
          /\ p_set = [k \in 1..n_phase |-> Zero]
          /\ call \in { [NoCall EXCEPT !.fn = "i_from_p", !.p = p, !.rev = rev] :
                          p \in ConvertPowers, rev \in BOOLEAN }
       \/ /\ sig \in { phase_sig(cons, [k \in 1..Len(cons) |-> Zero]) :
                         cons \in { l \in Lists(ConsReadings, MaxPhases) : Len(l) > 1 } }
          /\ par \in { [TestPar EXCEPT !.p_per_phase = m] : m \in { R(1000), R(46) } }
          /\ p_set = [k \in 1..n_phase |-> Zero]
          /\ call \in { [NoCall EXCEPT !.fn = "to_phases", !.p = p] : p \in PhaseRequests }
       \/ /\ sig = TestSig
          /\ par = TestPar
          /\ p_set = [k \in 1..n_phase |-> Zero]
          /\ call \in { [NoCall EXCEPT !.fn = "small_p_step", !.p = p, !.a = << q >>] :
                          p \in StepPowers, q \in StepPowers }

NextCall ==
    Balance \/ I_from_p \/ P_from_i \/ To_phases \/ Small_p_step \/ Mode_set_inv_ps

SpecCall == InitCall /\ [][NextCall]_vars

(* ---- writes to a published signal -------------------------------------- *)
(* The object path and the text of a value are what the bus library and    *)
(* the text callback supply; the change callback is the publisher's and    *)
(* answers each call on its own.                                           *)

MaxWrites == 3

ItemValues == { PyNone, PyInt(0), PyInt(5), PyFloat(5), PyInt(300), PyList }

(* what arrives over the bus: what an importer wraps, and an int32 *)
WireValues == { wrap_dbus_value(x) : x \in ItemValues } \cup { Variant("i", PyInt(5)) }

(* DbusItemExport._local_set_value and the signal local_set_value emits *)
local_set_value(it, newvalue) ==
    IF PyEq(it._value, newvalue)
    THEN it
    ELSE [it EXCEPT !._value = newvalue, !.sent = @ + 1]

(* SetValue that asks the callback about every value *)
SetValue_asks_always(it, w, ok) ==
    IF ~it._writeable
    THEN [it EXCEPT !.ret = 1, !.wire = w, !.answer = ""]
    ELSE IF ~it._onchangecallback
    THEN [local_set_value(it, unwrap_dbus_value(w)) EXCEPT !.ret = 0, !.wire = w,
                                                         !.answer = ""]
    ELSE IF ok
    THEN [local_set_value(it, unwrap_dbus_value(w))
             EXCEPT !.ret = 0, !.wire = w, !.answer = "accept", !.asked = @ + 1]
    ELSE [it EXCEPT !.ret = 2, !.wire = w, !.answer = "reject", !.asked = @ + 1]

(* DbusItemExport.SetValue(w); ok is the callback's answer, if it is asked *)
SetValue(it, w, ok) ==
    IF ~it._writeable
    THEN [it EXCEPT !.ret = 1, !.wire = w, !.answer = ""]
    ELSE IF PyEq(unwrap_dbus_value(w), it._value)
    THEN [it EXCEPT !.ret = 0, !.wire = w, !.answer = ""]
    ELSE IF ~it._onchangecallback
    THEN [local_set_value(it, unwrap_dbus_value(w)) EXCEPT !.ret = 0, !.wire = w,
                                                         !.answer = ""]
    ELSE IF ok
    THEN [local_set_value(it, unwrap_dbus_value(w))
             EXCEPT !.ret = 0, !.wire = w, !.answer = "accept", !.asked = @ + 1]
    ELSE [it EXCEPT !.ret = 2, !.wire = w, !.answer = "reject", !.asked = @ + 1]

(* DbusItemImport._refreshcachedvalue: the value of the variant GetValue returns *)
refreshcachedvalue(it) ==
    [it EXCEPT !._cachedvalue = wrap_dbus_value(it._value).value]

itemRest == << bms_cap, ctlVars, sig, par, i_pv_max, last_p, dest_p, step, p_set,
               lastReq, lastSwitch, lastSet, res, ncalc, call, env, settle, topbal, averages >>

(* another process calls SetValue over the bus *)
Export_SetValue ==
    /\ item.calls < MaxWrites
    /\ \E w \in WireValues, ok \in BOOLEAN :
          item' = [SetValue(item, w, ok) EXCEPT !.calls = @ + 1]
    /\ UNCHANGED itemRest

(* DbusItemImport.set_value(newvalue) *)
Import_set_value ==
    /\ item.calls < MaxWrites
    /\ \E x \in ItemValues, ok \in BOOLEAN :
          \E it \in { [SetValue(item, wrap_dbus_value(x), ok) EXCEPT !.calls = @ + 1] } :
             item' = IF it.ret = 0 THEN refreshcachedvalue(it) ELSE it
    /\ UNCHANGED itemRest

(* the publisher sets the value itself *)
Export_local_set_value ==
    /\ item.sent < MaxWrites
    /\ \E x \in ItemValues :
          /\ ~PyEq(item._value, x)
          /\ item' = local_set_value(item, x)
    /\ UNCHANGED itemRest

InitItem ==
    /\ env = "item"
    /\ bms_cap = << >>
    /\ cfg = [ default |-> "off", modes |-> NoCfgModes ]
    /\ op = NoData
    /\ _mode = "off"
    /\ _change_mode_evt = "set"
    /\ _mode_task = 0
    /\ _mode_task_stopped = FALSE
    /\ pcRun = "call"
    /\ tasks = [s \in Slots |-> FreeTask]
    /\ crashed = ""
    /\ sig = TestSig
    /\ par = TestPar
    /\ i_pv_max = Zero
    /\ last_p = Zero
    /\ dest_p = Zero
    /\ step = 0
    /\ p_set = [k \in 1..n_phase |-> Zero]
    /\ lastReq = NoReq
    /\ lastSwitch = NoSwitch
    /\ lastSet = NoSet
    /\ res = NoCalc("none")
    /\ ncalc = 0
    /\ call = NoCall
    /\ averages = NoAvg
    /\ settle = NoSettle
    /\ topbal = NoTop
    /\ item \in { refreshcachedvalue([NoItem EXCEPT !._value = x, !._writeable = wr,
                                                    !._onchangecallback = cb]) :
                    x \in ItemValues, wr \in BOOLEAN, cb \in BOOLEAN }

NextItem == Export_SetValue \/ Import_set_value \/ Export_local_set_value

SpecItem == InitItem /\ [][NextItem]_vars

-----------------------------------------------------------------------------
(* Properties.                                                             *)

(* C1: a SetMode request to switch to another mode is rejected with        *)
(* too_early exactly when it arrives between the run loop's start of a     *)
(* mode task and the end of the 30 s delay after it.                       *)
C1_TooEarlyInWindow ==
    (lastReq.kind = "SetMode" /\ ~lastReq.same)
        => (lastReq.window <=> lastReq.result = "too_early")

C1_Witness ==
    /\ lastReq.kind = "SetMode"
    /\ ~lastReq.same
    /\ lastReq.window
    /\ lastReq.result = "too_early"
    /\ pcRun = "sleep"
    /\ \E s \in Slots : tasks[s].st = "run"

(* C2: at most one mode task is active (running, or cancelled and not yet  *)
(* unwound), and a mode task begins only when no other one is active.      *)
ActiveTasks == { s \in Slots : tasks[s].st \in { "run", "cancelled" } }

C2_OneModeTask ==
    /\ [](Cardinality(ActiveTasks) <= 1)
    /\ [][\A s \in Slots :
            (tasks[s].st = "spawned" /\ tasks'[s].st = "run")
                => /\ ActiveTasks = {}
                   /\ _mode_task = 0]_vars

C2_Witness ==
    \E s, t \in Slots : tasks[s].st = "spawned" /\ tasks[t].st = "cancelled"

(* C3: SetMode with an unregistered name fails with unknown, and each of   *)
(* the names off, idle, p_grid, p_inv, i_batt, soc, remote, analyze is     *)
(* registered and accepted outside the settling window.                    *)
C3_BuiltinNamesAccepted ==
    LET builtin == { "off", "idle", "p_grid", "p_inv", "i_batt", "soc", "remote",
                     "analyze" }
    IN  (lastReq.kind = "SetMode" /\ ~lastReq.window) =>
            /\ lastReq.mode \in builtin => lastReq.result = "ok"
            /\ lastReq.mode \notin MODES => lastReq.result = "unknown"

(* C4: started in mode off, SetMode("p_grid", {power: 500}) outside the    *)
(* window succeeds, a switch within the window gets too_early, SetMode     *)
(* ("soc", {dest_soc: 0.8}) after it succeeds and the soc task then runs   *)
(* with dest_soc = 0.8.                                                    *)
C4_Scenario ==
    cfg.default = "off" =>
        /\ (lastReq.kind = "SetMode" /\ lastReq.mode = "p_grid" /\ ~lastReq.window)
              => lastReq.result = "ok"
        /\ (lastReq.kind = "SetMode" /\ ~lastReq.same /\ lastReq.window)
              => lastReq.result = "too_early"
        /\ (lastReq.kind = "SetMode" /\ lastReq.mode = "soc" /\ ~lastReq.window)
              => lastReq.result = "ok"
        /\ \A s \in Slots :
              (tasks[s].st = "run" /\ tasks[s].mode = "soc" /\ _mode = "soc"
                 /\ lastSwitch["dest_soc"] = Q(8, 10))
                  => op["dest_soc"] = Q(8, 10)

(* C5: when the task of the mode switched to runs, op[k] is the submitted  *)
(* value for every key k the switch submitted.                             *)
C5_SubmittedWins ==
    \A s \in Slots :
        (tasks[s].st = "run" /\ tasks[s].mode = _mode)
            => \A k \in OpKeys : ~IsNone(lastSwitch[k]) => op[k] = lastSwitch[k]

(* C6: SetModeParam(key, value) fails with unknown and leaves op alone     *)
(* when key is empty, starts with '_' or is not documented by the current  *)
(* mode; otherwise it sets op[key] = value and neither the mode nor its    *)
(* task nor the change event is touched.                                   *)
C6_SetModeParam ==
    [][\A key \in ParamInputs :
          SetModeParam(key, ParamValue(key)) =>
              IF key \in { "", "_l" } \/ key \notin _doc(_mode)
              THEN lastReq'.result = "unknown" /\ op' = op
              ELSE /\ lastReq'.result = "ok"
                   /\ op' = [op EXCEPT ![key] = ParamValue(key)]
                   /\ UNCHANGED << _mode, _change_mode_evt, _mode_task, tasks, pcRun >>]_vars

C6_Witness ==
    /\ lastReq.kind = "SetModeParam"
    /\ lastReq.result = "ok"
    /\ lastReq.key = "dest_soc"
    /\ op["dest_soc"] = Q(8, 10)
    /\ \E s \in Slots : tasks[s].st = "run" /\ tasks[s].mode = "soc"

(* C7: after calc_inv_p the battery current is within [ib_min, ib_max]     *)
(* and the target power within [pg_min, pg_max]; a request beyond an AC    *)
(* limit that the battery limits allow at that limit yields the limit.     *)
BattAt(p) == RSub(RNeg(i_from_p(p, TRUE)), i_pv)

Headroom(p) == RLe(ib_min, BattAt(p)) /\ RLe(BattAt(p), ib_max)

C7_WithinLimits ==
    (ncalc > 0 /\ res.exc = "none") =>
        /\ RLe(ib_min, res.i_batt) /\ RLe(res.i_batt, ib_max)
        /\ RLe(par.pg_min, res.p) /\ RLe(res.p, par.pg_max)
        /\ (RLt(par.pg_max, res.init) /\ Headroom(par.pg_max)) => res.p = par.pg_max
        /\ (RLt(res.init, par.pg_min) /\ Headroom(par.pg_min)) => res.p = par.pg_min

(* C8: ib_max is 0 when the BMS disallows discharging, ib_min is 0 when it *)
(* disallows charging, and ib_min <= 0 <= ib_max otherwise.                *)
C8_BmsDisallow ==
    /\ ~sig._ok_dis => ib_max = Zero
    /\ ~sig._ok_chg => ib_min = Zero
    /\ RLe(ib_min, Zero) /\ RLe(Zero, ib_max)

(* C9: with op.fake set no inverter setpoint is written: a step taken with *)
(* op.fake set leaves /Hub4/L{i}/AcPowerSetpoint alone, and no call of     *)
(* set_inv_ps made with op.fake set has written.                           *)
C9_FakeNeverWrites ==
    /\ [](lastSet.wrote => ~lastSet.fake)
    /\ [][op_fake(op') => p_set' = p_set]_vars

C9_Witness ==
    /\ fake
    /\ lastSet = [ wrote |-> FALSE, fake |-> TRUE ]
    /\ \E s \in Slots : tasks[s].st = "run" /\ tasks[s].running

(* C10: a cycle that finds a required signal without a value emits no      *)
(* setpoint and leaves the mode task running.                              *)
C10_AbsentSkipsCycle ==
    [][\A s \in Slots :
          (Cycle(s) /\ SignalAbsent)
              => /\ p_set' = p_set
                 /\ crashed' = ""
                 /\ tasks'[s].st = "run"]_vars

(* the single-phase bench of test_basic with the PV current, the discharge *)
(* limit ib_max and i_pv_max given; ib_min = -20, u_dc = 100, inv_eff =    *)
(* 0.25, pv_delta = 10                                                     *)
TestBench(pv, dis, pvmax) ==
    /\ env = "scenario"
    /\ sig = [TestSig EXCEPT !._i_pv = R(pv), !._ib_dis = R(dis)]
    /\ i_pv_max = R(pvmax)

(* the last call, if it was calc_inv_p(p), returned r *)
Emits(p, r) ==
    (ncalc > 0 /\ res.init = R(p)) => (res.exc = "none" /\ res.phases = r)

(* the last call was calc_inv_p and returned a setpoint vector *)
Returned == ncalc > 0 /\ res.exc = "none" /\ ~IsNone(res.init)

(* the last call distributed its setpoint by the loads, and to_phases      *)
(* capped a phase at p_per_phase                                           *)
LimitHit ==
    /\ res.phase = 0
    /\ n_phase > 1
    /\ capped(ps(res.np), Num(RNeg(par.p_per_phase)), Num(par.p_per_phase)) # {}

(* C11: on N phases every vector decide returns has N entries, and unless  *)
(* a per-phase limit was hit they sum to the scalar setpoint emitted, less *)
(* the readings of the loads on the inverter output; with the setpoint     *)
(* distributed by the loads and with a phase given.                        *)
C11_VectorSum ==
    Returned =>
        /\ Len(res.phases) = n_phase
        /\ ~LimitHit => RSum(res.phases) = RSub(res.np, RSum(sig.p_crit_))

(* on four phases with unequal loads and a load on the inverter output,    *)
(* distributed by the loads                                                *)
C11_Witness ==
    /\ Returned
    /\ n_phase = 4
    /\ res.phase = 0
    /\ ~LimitHit
    /\ sig.p_cons_[1] = R(50)
    /\ sig.p_crit_[4] = R(20)
    /\ res.np = R(100)
    /\ res.phases = << Q(125, 2), Q(25, 2), Q(25, 2), Q(-15, 2) >>

(* C12 as stated, p_crit[i] being the reading of the loads on the output   *)
(* of phase i: when no rule fires and the damper passes the request on,    *)
(* the entries returned sum to p + sum(p_crit).                            *)
C12_AsStated ==
    (Returned /\ res.fired = {})
        => RSum(res.phases) = RAdd(res.init, RSum(sig.p_crit_))

(* C12: when no rule fires, the damper passes the request on and no        *)
(* per-phase limit is hit, the entries returned sum to p less the readings *)
(* of the loads on the inverter output (p + self.p_crit, the property      *)
(* being the negated sum of the readings); on one phase without such loads *)
(* decide(p) returns [p], as for 0, 100, -100, and 1000 with ib_max = 100. *)
C12_PassThrough ==
    /\ (Returned /\ res.fired = {} /\ ~LimitHit)
          => /\ RSum(res.phases) = RSub(res.init, RSum(sig.p_crit_))
             /\ (n_phase = 1 /\ sig.p_crit_ = << Zero >>) => res.phases = << res.init >>
    /\ TestBench(0, 40, 0)
          => /\ Emits(0, << R(0) >>)
             /\ Emits(100, << R(100) >>)
             /\ Emits(-100, << R(-100) >>)
    /\ TestBench(0, 100, 0) => Emits(1000, << R(1000) >>)

(* 1000 with ib_max = 100 passed through *)
C12_Witness ==
    /\ TestBench(0, 100, 0)
    /\ Returned
    /\ res.init = R(1000)
    /\ res.fired = {}
    /\ res.phases = << R(1000) >>

(* C13: the efficiency round trip: with u_dc and inv_eff fixed, for every  *)
(* non-zero power p and both values of rev, converting p to a current with *)
(* i_from_p(p, rev) and back with p_from_i(i, not rev) returns p.          *)
C13_RoundTrip ==
    (call.fn = "i_from_p" /\ Len(call.out) = 2) => call.out[2] = call.p

C13_Witness ==
    /\ call.fn = "i_from_p"
    /\ Len(call.out) = 2
    /\ call.rev
    /\ RLt(call.p, Zero)
    /\ call.out[1] = RMul(RDiv(RNeg(call.p), u_dc), par.inv_eff)

(* C14: the charge cap: on the single-phase bench without PV a request of  *)
(* -1000 emits [-500].                                                     *)
C14_ChargeCap == TestBench(0, 40, 0) => Emits(-1000, << R(-500) >>)

(* C15: the PV headroom (I_MAX): on the single-phase bench with i_pv = 55  *)
(* a request of 1000 emits [750].                                          *)
C15_PvHeadroom == TestBench(55, 40, 0) => Emits(1000, << R(750) >>)

(* C16: the PV absorption (I_PVD): on the single-phase bench with i_pv =   *)
(* 50 and i_pv_max = 50 a request of 0 emits [125]; a request of 125 with  *)
(* i_pv = 50 and i_pv_max 50 or 100 emits [125].                           *)
C16_PvAbsorption ==
    /\ TestBench(50, 40, 50) => (Emits(0, << R(125) >>) /\ Emits(125, << R(125) >>))
    /\ TestBench(50, 40, 100) => Emits(125, << R(125) >>)

(* the list has no entry below zero together with one above *)
OneSign(v) == ~\E i, j \in 1..Len(v) : RLt(v[i], Zero) /\ RLt(Zero, v[j])

(* the phases that to_phases(call.p) capped at p_per_phase *)
PhasesCapped == capped(ps(call.p), Num(RNeg(par.p_per_phase)), Num(par.p_per_phase))

(* the examples on four phases: request, consumption readings, result *)
Distributed(p, cons, r) ==
    (n_phase = 4 /\ call.p = R(p) /\ sig.p_cons_ = [k \in 1..4 |-> R(cons[k])])
        => call.out[1] = r

(* C17 as stated, load[i] being the reading of the AC consumption of phase *)
(* i: with no per-phase limit active the distributor returns               *)
(* np/N - (load[i] - avg(load)) and preserves the sum.                     *)
C17_AsStated ==
    (call.fn = "to_phases" /\ Len(call.out) = 1 /\ PhasesCapped = {})
    => LET avg == RDiv(RSum(sig.p_cons_), R(n_phase))
       IN  /\ RSum(call.out[1]) = call.p
           /\ \A k \in 1..n_phase :
                 call.out[1][k] = RSub(RDiv(call.p, R(n_phase)),
                                       RSub(sig.p_cons_[k], avg))

(* C17: the distributor returns one entry per phase.  While no per-phase   *)
(* limit is active the entries sum to the request np, none is below zero   *)
(* while another is above, and, where that leaves them of one sign, entry  *)
(* i is np/N + (c[i] - avg(c)), c[i] the reading of the AC consumption of  *)
(* phase i (load[i] = -c[i]).  On 4 phases with p_per_phase = 1000, np =   *)
(* 100 gives [25,25,25,25] for readings [0,0,0,0], [100,0,0,0] for         *)
(* [100,0,0,0] and [62.5,12.5,12.5,12.5] for [50,0,0,0].                   *)
C17_Distribution ==
    (call.fn = "to_phases" /\ Len(call.out) = 1)
    => LET r   == call.out[1]
           avg == RDiv(RSum(sig.p_cons_), R(n_phase))
           f   == [k \in 1..n_phase |->
                      RAdd(RDiv(call.p, R(n_phase)), RSub(sig.p_cons_[k], avg))]
       IN  /\ Len(r) = n_phase
           /\ PhasesCapped = {} => /\ RSum(r) = call.p
                                   /\ OneSign(r)
                                   /\ OneSign(f) => r = f
           /\ par.p_per_phase = R(1000)
                 => /\ Distributed(100, <<0, 0, 0, 0>>, <<R(25), R(25), R(25), R(25)>>)
                    /\ Distributed(100, <<100, 0, 0, 0>>, <<R(100), R(0), R(0), R(0)>>)
                    /\ Distributed(100, <<50, 0, 0, 0>>,
                                   <<Q(125, 2), Q(25, 2), Q(25, 2), Q(25, 2)>>)

(* the third example, and a request whose shares are of both signs *)
C17_Witness ==
    /\ call.fn = "to_phases"
    /\ n_phase = 4
    /\ call.p = R(100)
    /\ par.p_per_phase = R(1000)
    /\ sig.p_cons_ = <<R(50), R(0), R(0), R(0)>>
    /\ call.out = << <<Q(125, 2), Q(25, 2), Q(25, 2), Q(25, 2)>> >>

(* C18 as stated: an entry above p_per_phase is capped and what was cut    *)
(* off goes to the other phases, so that the sum is preserved.             *)
C18_AsStated ==
    (call.fn = "to_phases" /\ Len(call.out) = 1 /\ PhasesCapped # {})
    => /\ \A k \in PhasesCapped : RAbs(call.out[1][k]) = par.p_per_phase
       /\ RSum(call.out[1]) = call.p

(* C18: no entry the distributor returns is outside +-p_per_phase; an      *)
(* entry that was capped is at +-p_per_phase; the sum of the entries is    *)
(* the request np as long as |np| <= N * p_per_phase, beyond that every    *)
(* entry is at the limit.  On 4 phases np = 100, readings [50,0,0,0] and   *)
(* p_per_phase = 46 give [46,18,18,18].                                    *)
C18_PerPhaseClamp ==
    (call.fn = "to_phases" /\ Len(call.out) = 1)
    => LET r    == call.out[1]
           room == RMul(R(n_phase), par.p_per_phase)
       IN  /\ \A k \in 1..n_phase : RLe(RAbs(r[k]), par.p_per_phase)
           /\ \A k \in PhasesCapped : RAbs(r[k]) = par.p_per_phase
           /\ RLe(RAbs(call.p), room) => RSum(r) = call.p
           /\ RLt(room, RAbs(call.p))
                 => \A k \in 1..n_phase : RAbs(r[k]) = par.p_per_phase
           /\ par.p_per_phase = R(46)
                 => Distributed(100, <<50, 0, 0, 0>>, <<R(46), R(18), R(18), R(18)>>)

C18_Witness ==
    /\ call.fn = "to_phases"
    /\ n_phase = 4
    /\ call.p = R(100)
    /\ par.p_per_phase = R(46)
    /\ sig.p_cons_ = <<R(50), R(0), R(0), R(0)>>
    /\ PhasesCapped = {1}
    /\ call.out = << <<R(46), R(18), R(18), R(18)>> >>

C20_BalanceSum ==
    (call.fn = "balance" /\ Len(call.out) >= 1
        /\ capped(call.a, call.min, call.max) = {})
    => RSum(call.out[1]) = RSum(call.a)

(* a list of mixed signs, with limits that no entry reaches *)
C20_Witness ==
    /\ call.fn = "balance"
    /\ Len(call.out) >= 1
    /\ call.min.kind = "num" /\ call.max.kind = "num"
    /\ capped(call.a, call.min, call.max) = {}
    /\ \E i, j \in 1..Len(call.a) : RLt(call.a[i], Zero) /\ RLt(Zero, call.a[j])
    /\ call.out[1] # call.a

(* C21: balance returns no list with an entry above zero and one below     *)
(* unless a limit forces it: a result with no entry capped, and so every   *)
(* result computed without min and max, is of one sign.                    *)
C21_NoMixedSigns ==
    (call.fn = "balance" /\ Len(call.out) >= 1)
    => /\ capped(call.a, call.min, call.max) = {} => OneSign(call.out[1])
       /\ (call.min.kind = "none" /\ call.max.kind = "none") => OneSign(call.out[1])

(* a list of both signs, balanced without limits *)
C21_Witness ==
    /\ call.fn = "balance"
    /\ Len(call.out) >= 1
    /\ call.min.kind = "none" /\ call.max.kind = "none"
    /\ ~OneSign(call.a)
    /\ \E k \in 1..Len(call.a) : call.out[1][k] # Zero

(* C22: the damper is monotonic: a decide call whose target p lies above   *)
(* a positive last_p emits np with last_p <= np <= p, one whose target     *)
(* lies below a negative last_p emits np with p <= np <= last_p; the       *)
(* minimum step p_step never carries np beyond p.                          *)
C22_DamperMonotonic ==
    [][(ncalc' = ncalc + 1 /\ res'.exc = "none" /\ ~IsNone(res'.p))
          => /\ (RLt(Zero, last_p) /\ RLt(last_p, res'.p))
                   => (RLe(last_p, res'.np) /\ RLe(res'.np, res'.p))
             /\ (RLt(last_p, Zero) /\ RLt(res'.p, last_p))
                   => (RLe(res'.p, res'.np) /\ RLe(res'.np, last_p))]_vars

(* the damper took the minimum step p_step from a positive setpoint,       *)
(* towards a target more than p_step further up                            *)
C22_Witness ==
    /\ Returned
    /\ "P_GRAD" \in res.fired
    /\ res.step = 2
    /\ RLt(par.p_step, res.np)
    /\ RLt(res.np, res.p)
    /\ \E q \in DecideRequests :
          /\ RLt(Zero, q)
          /\ res.np = RAdd(RMul(q, par.f_step), par.p_step)

(* C23: the small-step predicate is symmetric, small_p_step(p, q) =        *)
(* small_p_step(q, p) for all p and q, zero and opposite signs included,   *)
(* and it is true whenever |p - q| < p_step.                               *)
C23_SmallStepSymmetric ==
    (call.fn = "small_p_step" /\ Len(call.out) = 2)
    => /\ call.out[1] = call.out[2]
       /\ RLt(RAbs(RSub(call.p, call.a[1])), par.p_step) => call.out[1]

(* two powers of one sign, further apart than p_step, found close by ratio *)
C23_Witness ==
    /\ call.fn = "small_p_step"
    /\ Len(call.out) = 2
    /\ RLe(par.p_step, RAbs(RSub(call.p, call.a[1])))
    /\ RLt(call.p, call.a[1])
    /\ call.out = << TRUE, TRUE >>

(* C24: the sum of the vector InvModeBase.set_inv_ps passes on to the      *)
(* inverters differs from the sum of the vector it was given by at most    *)
(* 50 W per phase, whatever the setpoints, readings and limits are.        *)
C24_SumKept ==
    (call.fn = "set_inv_ps" /\ call.out # << >>)
        => RLe(RAbs(RSub(RSum(call.out[1]), RSum(call.a))), R(50 * n_phase))

C26_HandOff ==
    [][\A s \in Slots :
         (tasks[s].st = "run" /\ tasks[s].pc = "an_handoff" /\ tasks'[s].st = "free")
         => /\ crashed' = ""
            /\ _mode' = IF tasks[s].an.skip > 0 THEN "p_off"
                        ELSE IF get(op, "use_grid", Zero) # Zero THEN "p_grid"
                        ELSE "p_inv"
            /\ tasks[s].an.skip = 0 => op'["power"] = Zero]_vars

(* C27: every setpoint the soc mode emits is the one the SoC comparison    *)
(* chooses: calc_batt_i(0) inside the 2 % deadband around dest_soc,        *)
(* calc_grid_p(power_in) below it and calc_grid_p(power_out) above it.     *)
C27_SocChoice ==
    [][\A s \in Slots :
         (tasks'[s].st = "run" /\ tasks'[s].mode = "soc"
            /\ tasks'[s].pc # tasks[s].pc /\ tasks'[s].pc \in { "soc1", "soc2" }
            /\ lastSet'.wrote)
         => p_set' = [k \in 1..n_phase |-> RNeg(soc_request(op').phases[k])]]_vars

(* C28: a remote task that is started reaches its selection of the         *)
(* sub-mode by SoC: it is running afterwards, as mode remote, and no       *)
(* fault is raised, so that a sub-mode of 0..3 is chosen on every pass.    *)
C28_RemoteSelects ==
    [][\A s \in Slots :
         (tasks[s].st = "spawned" /\ tasks'[s].st # "spawned"
            /\ _mode = "remote" /\ ~TwoTasks)
         => /\ tasks'[s].st = "run"
            /\ tasks'[s].mode = "remote"
            /\ crashed' = ""]_vars

C30_RulesRecorded ==
    Returned =>
       \A k \in 1..Len(Rules) :
          Rules[k] \in res.fired => \E j \in 1..Len(res.lims) : res.lims[j] = Rules[k]

(* C31: a decide call never reads a step counter that was not assigned;    *)
(* a call that reaches the damper sets the counter to 1 when it passes the *)
(* target through (SoC within [f_delta, 1 - f_delta] or a small step from  *)
(* last_p), else increments it when the target is small-step-equivalent to *)
(* dest_p and sets it to 2 when not; afterwards last_p is the emitted np,  *)
(* dest_p the target p, and the counter is at least 1.                     *)
C31_DamperState ==
    [][ncalc' = ncalc + 1
          => /\ res'.exc # "AttributeError"
             /\ ~IsNone(res'.p)
                  => /\ step' = IF (RLe(par.f_delta, batt_soc)
                                       /\ RLe(batt_soc, RSub(R(1), par.f_delta)))
                                      \/ small_p_step(last_p, res'.p)
                                  THEN 1
                                  ELSE IF small_p_step(dest_p, res'.p) THEN step + 1
                                  ELSE 2
                     /\ last_p' = res'.np
                     /\ dest_p' = res'.p
                     /\ step' >= 1]_vars

(* the counter was incremented: two damped calls towards one goal *)
C31_Witness ==
    /\ Returned
    /\ "P_GRAD" \in res.fired
    /\ step = 3
    /\ last_p = res.np
    /\ dest_p = res.p
    /\ res.np # res.p

(* C32: after every update of the PV averaging task the stored maximum is  *)
(* at least the PV current, the PV current is at least the conservative    *)
(* minimum i_pv_max * pv_margin, and pv_margin has not increased.          *)
C32_PvMargin ==
    [][Avg_task
          => /\ RLe(i_pv, i_pv_max')
             /\ RLe(RMul(i_pv_max', par'.pv_margin), i_pv)
             /\ RLe(par'.pv_margin, par.pv_margin)]_vars

(* the samples _i_batt_task has taken so far, at most the last four *)
BattSamples == { k \in 1..Len(averages.b_last) : ~IsNone(averages.b_last[k]) }

BattMean == RDiv(RSum(averages.b_last), R(Len(averages.b_last)))

(* C33 as stated: i_batt_avg is 0 until four samples of i_batt have        *)
(* arrived and their mean afterwards; no mode task exists before the first *)
(* four-sample average does.                                               *)
C33_AsStated ==
    /\ averages.i_batt_avg = IF Cardinality(BattSamples) < 4 THEN Zero ELSE BattMean
    /\ (\E s \in Slots : tasks[s].st # "free")
          => (averages.evt /\ Cardinality(BattSamples) = 4)

(* C33, amended: i_batt_avg is None until _i_batt_task has taken its first *)
(* sample, 0 while it has taken one to three, and the mean of the last     *)
(* four samples afterwards; no mode task exists before the first           *)
(* four-sample average does.                                               *)
C33_BattAverage ==
    /\ averages.i_batt_avg = IF Cardinality(BattSamples) = 0 THEN None
                             ELSE IF Cardinality(BattSamples) < 4 THEN Zero
                             ELSE BattMean
    /\ (\E s \in Slots : tasks[s].st # "free")
          => (averages.evt /\ Cardinality(BattSamples) = 4)

(* a mode task was spawned after four samples, one of them 8 A *)
C33_Witness ==
    /\ \E s \in Slots : tasks[s].st = "spawned"
    /\ averages.i_batt_avg = R(-2)
    /\ averages.evt

(* C40: no averaging task is in an iteration that does not reach a         *)
(* suspension point, whatever the telemetry values are.                    *)
C40_TasksSuspend == ~averages.spin

(* C38: a SetMode that is rejected with too_early or unknown leaves the    *)
(* mode identifier, the operator parameters, the running mode task and the *)
(* pending-switch event as they were.                                      *)
C38_RejectedSetMode ==
    [][ ( /\ \E mode \in Env.modes, data \in Env.data : SetMode(mode, data)
          /\ lastReq'.result \in { "too_early", "unknown" } )
        => UNCHANGED << _mode, op, _mode_task, _mode_task_stopped, tasks,
                        _change_mode_evt >> ]_vars

(* a request for a name that is no mode was rejected while a task runs *)
C38_Witness ==
    /\ lastReq.kind = "SetMode"
    /\ lastReq.result = "unknown"
    /\ _mode \in MODES
    /\ _change_mode_evt = "unset"
    /\ \E s \in Slots : tasks[s].st = "run"

(* C39: called again and again with the same request, calc_inv_p emits the *)
(* limited target p after finitely many calls and keeps emitting it,       *)
(* whatever last_p it started from and whatever the SoC is: every call     *)
(* either emits p or brings the setpoint at least p_step nearer to p, a    *)
(* call made when the setpoint is p emits p again, and MaxDamp calls       *)
(* suffice from every start.                                               *)
C39_DamperConverges ==
    [][ /\ res'.exc = "none"
        /\ res'.np = last_p'
        /\ \/ last_p' = res'.p
           \/ RLe(RAdd(RAbs(RSub(res'.p, last_p')), par.p_step),
                  RAbs(RSub(res'.p, last_p)))
        /\ (last_p = res'.p) => (last_p' = res'.p)
        /\ (ncalc' = MaxDamp) => (last_p' = res'.p) ]_vars

(* the target was reached by damped steps and is kept *)
C39_Witness ==
    /\ env = "damper"
    /\ ncalc >= 4
    /\ RLt(Q(8, 10), batt_soc)
    /\ res.init = R(-5000)
    /\ res.np = res.p
    /\ last_p = res.p
    /\ step = 1

(* C36: the redistributor treats intake as it treats out-feeding: a        *)
(* setpoint above zero that the inverter misses by more than 20 W records  *)
(* ps_max[i] = p_run_[i], and the pass on the negated request, telemetry   *)
(* and limits yields the negated result of the pass.                       *)
C36_IntakeMirrored ==
    [][ Mode_set_inv_ps
        => /\ \A i \in 1..n_phase :
                 (call.rev /\ RLt(Zero, p_set[i])
                           /\ RLt(RAdd(sig.p_run_[i], R(20)), p_set[i]))
                    => call'.out[3][i] = sig.p_run_[i]
           /\ \E m \in { inv_ps_mirrored(call.a, call.min, call.max, call.rev) } :
                 call'.out = << m.ps, m.ps_min, m.ps_max >> ]_vars

(* C34: after an emission the wait ends: p_inv is read at most 10 times,   *)
(* after one wait before the first read; every wait returns on an update   *)
(* or on its time-out; the loop ends early exactly when a sample and the   *)
(* one before it each differ from their predecessor by less than p_step.   *)
C34_SettleEnds ==
    /\ [](settle.polls <= SettlePolls /\ (settle.initial => settle.polls = 0))
    /\ [][ (settle'.polls # settle.polls /\ settle'.polls # 0)
             => /\ settle.pc = "wait"
                /\ \E now \in { settle_small(settle'.pp, settle.p) } :
                   \E before \in { IF IsNone(settle.prev) THEN FALSE
                                    ELSE settle_small(settle.p, settle.prev) } :
                      (settle'.pc = "idle" /\ settle'.polls < SettlePolls)
                         <=> (now /\ before /\ settle'.polls < SettlePolls)
                /\ settle'.pc = "idle" => settle'.running ]_vars
    /\ (settle.pc # "idle") ~> (settle.pc = "idle")

(* the loop ended early, on its third sample, and the mode is running *)
C34_Witness ==
    /\ settle.pc = "idle"
    /\ settle.running
    /\ settle.polls = 3
    /\ ~settle.seen

(* C35: the first emission of a mode task is passed on as requested, and   *)
(* before a later emission compares p_set_ with p_run_ a wait since the    *)
(* emission before has ended by a telemetry update.                        *)
C35_FreshTelemetry ==
    [][ (settle'.emits # settle.emits)
        => /\ (settle.emits = 0) => (settle'.ps = settle'.req)
           /\ (settle.running /\ n_phase > 1) => settle.seen ]_vars

(* C37: top balancing starts its hold only after min_cell >= umin and      *)
(* max_cell - min_cell < 3 d were read in at least three polls in a row,   *)
(* and emits charging power on every poll before; it never starts the hold *)
(* on a poll that read the cells 3 d or more apart.                        *)
C37_HoldWhenBalanced ==
    [][ /\ (topbal.pc = "poll" /\ topbal'.pc = "hold")
           => /\ topbal'.calm >= 3
              /\ RLe(top_umin, topbal'.min)
              /\ RLt(RSub(topbal'.max, topbal'.min), top_dest_d)
        /\ (topbal.pc = "poll" /\ topbal'.pc = "poll" /\ topbal'.emits <= MaxTopEmits
              /\ topbal.emits < MaxTopEmits)
           => topbal'.emits = topbal.emits + 1 ]_vars

====
